---- MODULE Spec2Model ----
(***************************************************************************)
(* DataMigrationTool: the migration engine (migration/engine.go), the      *)
(* worker pool and the batch processor (database/worker_pool.go) and the   *)
(* validator (validation/validator.go) as state machines.                  *)
(*                                                                         *)
(*   Spec    one run of MigrationEngine.ExecuteMigration, step by step at  *)
(*           the calls it makes on the source and target clients           *)
(*   SpecWP  ProcessTablesWithWorkerPool: submitter, workers, collector    *)
(*   SpecWPFair  SpecWP with every goroutine scheduled fairly              *)
(*   SpecBP  BatchProcessor.ProcessInBatches, one importFn call per step   *)
(*   SpecVal the MigrationVaildator: PreMigrationValidation run twice,     *)
(*           then PostMigationValidation, on a source and a target store   *)
(*   SpecPT  the ProcessTracker called by concurrent tasks                 *)
(*   SpecEX  ExecuteMigration called repeatedly on one engine, as seen by  *)
(*           its logger and its progress monitor task                      *)
(*   SpecEXFair  SpecEX under the fairness of the Go scheduler             *)
(*   SpecRM  the RollBackManager: its operations on the snapshot           *)
(*           directory, called in any order while time passes              *)
(***************************************************************************)
EXTENDS Integers, Sequences, FiniteSets, TLC

\* ------------------------------------------------------------------ bounds
MaxTables == 2
MaxRows == 4
MaxBatchSize == 2
MaxPoolTables == 3
MaxWorkers == 2
MaxLen == 8
MaxChunk == 4
MaxTime == 1
MaxMigrated == 2
MaxVRows == 6
MaxWriters == 2
MaxOps == 2
MaxRuns == 2

\* ------------------------------------------------------- program constants
\* validation/validator.go:33, the default sample size
SampleSize == 100
\* validation/validator.go:153, the rows validateSampleDataIntegrity compares
CheckRows == 5
LogCap == 100

VARIABLES
    \* ---- MigrationEngine.ExecuteMigration
    cfg,        \* me.Config: Mode, Tables, BatchSize, Concurrent, ValidateData
    source,     \* the source store: table -> number of rows it holds
    target,     \* the target store: table -> the rows imported into it
    pc,         \* where ExecuteMigration stands
    ti,         \* executeFullMigration's loop index over me.Config.Tables (1-based)
    tableData,  \* executeFullMigration's tableData of the current table
    bi,         \* importDataWithBatchTracking's loop variable i (0-based)
    result,     \* the *MigrationResult
    retErr,     \* the error ExecuteMigration returns ("nil": none)
    fetchLog,   \* every fetch call made on a client, in order
    importLog,  \* every ImportData call made on the target, in order
    tracker,    \* me.ProgressTracker's counters
    \* ---- ProcessTablesWithWorkerPool
    wpPc,          \* the caller: "call", "collect", "returned"
    wpTables,      \* the tables argument
    numWorkers,    \* the numWorkers argument
    failTables,    \* the tables whose fetch returns an error
    jobs,          \* wp.jobs, the buffered job channel
    jobsClosed,    \* close(wp.jobs) has run
    results,       \* wp.results, the buffered result channel
    resultsClosed, \* close(wp.results) has run
    subPc,         \* the submission goroutine: "idle", "submit", "wait", "close", "done"
    subI,          \* the submission loop's index into tables (1-based)
    wState,        \* each worker: "none", "idle", "fetching", "sending", "exited"
    wJob,          \* each worker's current job (a table), 0 when it has none
    wg,            \* wp.wg's counter
    colI,          \* the collection loop's i
    allResults,    \* the collector's allResults
    errors,        \* the collector's errors
    collected,     \* the TableName of every result received, in order
    wpRet,         \* what ProcessTablesWithWorkerPool returns
    wpPanic,       \* a send on the closed result channel happened
    \* ---- BatchProcessor.ProcessInBatches
    bpPc,          \* "idle", "call", "loop", "returned"
    bpData,        \* the data argument
    batchSize,     \* bp.batchSize
    bpI,           \* the loop variable i (0-based)
    bpCalls,       \* every processFunc call: the batch passed and its outcome
    bpRet,         \* what ProcessInBatches returns ("nil": no error)
    \* ---- RollBackManager
    rmNow,         \* time.Now(), in seconds
    rmFiles,       \* the snapshot directory: snapshot ID -> the file's content
    rmMissing,     \* the tables the target does not have (their fetch fails)
    rmLast,        \* the last operation called on the manager and what it returned
    rmTarget,      \* the manager's targetClient: table -> the number of rows it holds
    \* ---- MigrationVaildator
    valPc,         \* "idle", "pre", "again", "post", "done"
    valTables,     \* the tables argument of the validation calls
    valFailS,      \* the tables whose fetch from the source fails
    valFailT,      \* the tables whose fetch from the target fails
    valPre,        \* what the first PreMigrationValidation returned
    valPre2,       \* what the second PreMigrationValidation returned
    valPost,       \* what PostMigationValidation returned
    valFetches,    \* every FetchAllData call the validator made, in order
    \* ---- ProcessTracker under concurrent callers
    ptTask,        \* task -> where it is in the call it is making
    ptMu,          \* pt.mu: the task holding the write lock, the read locks held
    ptCounters,    \* pt.processedRows, pt.processedTables, len(pt.errors)
    ptCalls,       \* what the calls made so far add up to
    ptMetrics,     \* what the last GetMetrics returned
    \* ---- ExecuteMigration called again and again: logger, progress monitor
    exPc,          \* where the current call is; "idle" before the first
    exRun,         \* the number of calls made on the engine
    exValidate,    \* Config.ValidateData
    exDefer,       \* the deferred function of the current call is registered
    lgClosed,      \* me.Logger.logChan is closed
    lgQueued,      \* the entries in me.Logger.logChan
    lgPanic,       \* a send on, or a close of, the closed logChan has happened
    pmState        \* call -> its monitor task: "none", "waiting", "printing",
                   \*         "printed" (waiting again), "final", "ended"

engineVars == <<cfg, source, target, pc, ti, tableData, bi, result, retErr,
                fetchLog, importLog, tracker>>

wpVars == <<wpPc, wpTables, numWorkers, failTables, jobs, jobsClosed, results,
            resultsClosed, subPc, subI, wState, wJob, wg, colI, allResults,
            errors, collected, wpRet, wpPanic>>

bpVars == <<bpPc, bpData, batchSize, bpI, bpCalls, bpRet>>

rmVars == <<rmNow, rmFiles, rmMissing, rmLast, rmTarget>>

valVars == <<valPc, valTables, valFailS, valFailT, valPre, valPre2, valPost,
             valFetches>>

ptVars == <<ptTask, ptMu, ptCounters, ptCalls, ptMetrics>>

\* The parts studied on their own, outside a run of the engine
exVars == <<exPc, exRun, exValidate, exDefer, lgClosed, lgQueued, lgPanic,
            pmState>>

auxVars == <<ptVars, exVars>>

vars == <<engineVars, wpVars, bpVars, rmVars, valVars, auxVars>>

\* What an engine step leaves alone
notEngine == <<wpVars, bpVars, rmVars, valVars, auxVars>>

\* What a worker pool step leaves alone
notPool == <<engineVars, bpVars, rmVars, valVars, auxVars>>

\* What a batch processor step leaves alone
notBatch == <<engineVars, wpVars, rmVars, valVars, auxVars>>

\* What a rollback manager step leaves alone
notManager == <<engineVars, wpVars, bpVars, valVars, auxVars>>

\* What a validator step leaves alone besides the two stores
notValidator == <<cfg, pc, ti, tableData, bi, result, retErr, fetchLog,
                   importLog, tracker, wpVars, bpVars, rmVars, auxVars>>

\* What a step of the tracker's callers leaves alone
notTracker == <<engineVars, wpVars, bpVars, rmVars, valVars, exVars>>

\* What a step of a call, of its monitor or of the log sink leaves alone
notRuns == <<engineVars, wpVars, bpVars, rmVars, valVars, ptVars>>

Min(a, b) == IF a < b THEN a ELSE b

Range(s) == {s[i] : i \in 1..Len(s)}

\* ------------------------------------------------------------ the stores
\* A record (row) of table t; _source_table is the tag every fetch adds.
Row(t, i) == [id |-> i, name |-> "n", _source_table |-> t]

\* The non-metadata fields of a row
DataFields == {"id", "name"}

\* SourceClient.FetchAllData([]string{t}) when it succeeds
SourceFetch(t) == [i \in 1..source[t] |-> Row(t, i)]

\* TargetClient.ImportData(data) when it succeeds: every row is appended to
\* the table its _source_table names
ImportInto(tgt, data) ==
    [t \in DOMAIN tgt |->
        tgt[t] \o SelectSeq(data, LAMBDA r : r._source_table = t)]

\* ---------------------------------------------------------- the validator
\* compareValues: nil only equals nil; otherwise both operands are rendered
\* with %v and the strings compared. Every field of the modelled rows holds
\* values of one type (id an integer, name a string), whose renderings are
\* equal exactly when the values are.
\* Mutant of compareValues: equal values are reported as different
compareValuesInverted(v1, v2) == v1 # v2

compareValues(v1, v2) == v1 = v2

\* validateSampleDataIntegrity; keys[i] is the field the iteration over
\* source row i yields first. TRUE stands for a nil error.
validateSampleDataIntegrity(sourceData, targetData, keys) ==
    IF Len(sourceData) = 0 /\ Len(targetData) = 0 THEN TRUE
    ELSE IF Len(sourceData) # Len(targetData) THEN FALSE
    ELSE \A i \in 1..Min(CheckRows, Len(sourceData)) :
            compareValues(sourceData[i][keys[i]], targetData[i][keys[i]])

\* One iteration of PreMigrationValidation's loop
PreResult(table, fetchOk, sourceData) ==
    IF ~fetchOk
    THEN [TableName |-> table, IsValid |-> FALSE, ErrorMessage |-> "fetch",
          RowCount |-> 0, SampleData |-> <<>>]
    ELSE [TableName |-> table, IsValid |-> TRUE, ErrorMessage |-> "",
          RowCount |-> Len(sourceData),
          SampleData |-> SubSeq(sourceData, 1, Min(SampleSize, Len(sourceData)))]

\* Mutant of PreMigrationValidation: the first failing fetch ends the loop
PreMigrationValidationAbort(tables, okSet) ==
    LET bad == {i \in 1..Len(tables) : tables[i] \notin okSet}
        last == IF bad = {} THEN Len(tables)
                ELSE CHOOSE i \in bad : \A j \in bad : i <= j
    IN [i \in 1..last |->
            PreResult(tables[i], tables[i] \in okSet, SourceFetch(tables[i]))]

\* PreMigrationValidation(tables); okSet: the tables whose fetch succeeds
PreMigrationValidation(tables, okSet) ==
    [i \in 1..Len(tables) |->
        PreResult(tables[i], tables[i] \in okSet, SourceFetch(tables[i]))]

\* preResultMap[table]: a later entry of the list overwrites an earlier one
PreResultExists(preResults, table) ==
    \E i \in 1..Len(preResults) : preResults[i].TableName = table

PreResultOf(preResults, table) ==
    LET last == CHOOSE i \in 1..Len(preResults) :
                    /\ preResults[i].TableName = table
                    /\ \A j \in (i+1)..Len(preResults) :
                            preResults[j].TableName # table
    IN preResults[last]

\* The message of a row count mismatch: fmt.Sprintf with both counts
RowCountMismatch(expected, got) ==
    "Row count mismatch, expected source: " \o ToString(expected)
        \o ", got target: " \o ToString(got)

\* Mutant of RowCountDiffers: only a target with fewer rows is a mismatch
RowCountDiffersShortOnly(targetData, preResult) ==
    Len(targetData) < preResult.RowCount

\* result.RowCount != preResult.RowCount
RowCountDiffers(targetData, preResult) ==
    Len(targetData) # preResult.RowCount

\* One iteration of PostMigationValidation's loop
PostResult(table, fetchOk, targetData, preResults, keys) ==
    LET base == [TableName |-> table, IsValid |-> FALSE, ErrorMessage |-> "",
                 RowCount |-> 0, SampleData |-> <<>>]
        sample == SubSeq(targetData, 1, Min(SampleSize, Len(targetData)))
    IN  IF ~fetchOk THEN [base EXCEPT !.ErrorMessage = "fetch"]
        ELSE IF ~PreResultExists(preResults, table)
        THEN [base EXCEPT !.RowCount = Len(targetData),
                          !.ErrorMessage = "no prevalidation"]
        ELSE IF RowCountDiffers(targetData, PreResultOf(preResults, table))
        THEN [base EXCEPT !.RowCount = Len(targetData),
                          !.ErrorMessage =
                              RowCountMismatch(
                                  PreResultOf(preResults, table).RowCount,
                                  Len(targetData))]
        ELSE IF /\ Len(targetData) > 0
                /\ ~validateSampleDataIntegrity(
                        PreResultOf(preResults, table).SampleData, sample, keys)
        THEN [base EXCEPT !.RowCount = Len(targetData), !.SampleData = sample,
                          !.ErrorMessage = "data integrity"]
        ELSE [base EXCEPT !.RowCount = Len(targetData), !.IsValid = TRUE,
                          !.SampleData = IF Len(targetData) > 0 THEN sample ELSE <<>>]

\* Mutant of InvalidTables: only the tables whose fetch failed are counted
InvalidTablesFetchOnly(vresults) ==
    Cardinality({i \in 1..Len(vresults) :
                    ~vresults[i].IsValid /\ vresults[i].ErrorMessage = "fetch"})

\* Mutant of InvalidTables: the valid tables are counted instead
InvalidTablesSwapped(vresults) ==
    Cardinality({i \in 1..Len(vresults) : vresults[i].IsValid})

\* GenerateValidationSummary(results).InvalidTables
InvalidTables(vresults) ==
    Cardinality({i \in 1..Len(vresults) : ~vresults[i].IsValid})

\* ----------------------------------------------------------- idle parts
\* The engine while another component is under study: nothing has run
EngineAtRest ==
    /\ cfg = [Mode |-> "full", Tables |-> <<>>, BatchSize |-> 0,
              Concurrent |-> FALSE, ValidateData |-> FALSE,
              CreateBackup |-> FALSE]
    /\ pc = "idle"
    /\ ti = 1
    /\ tableData = <<>>
    /\ bi = 0
    /\ result = [Success |-> FALSE, TotalTablesProcessed |-> 0,
                 TotalRowsMigrated |-> 0, PreValidation |-> <<>>,
                 PostValidation |-> <<>>, Errors |-> <<>>]
    /\ retErr = "nil"
    /\ fetchLog = <<>>
    /\ importLog = <<>>
    /\ tracker = [processedRows |-> 0, processedTables |-> 0, errors |-> 0]

\* The engine and its stores while another component is under study
EngineIdle ==
    /\ EngineAtRest
    /\ source = [t \in 1..MaxTables |-> 0]
    /\ target = [t \in 1..MaxTables |-> <<>>]

\* The worker pool while another component is under study: never called
PoolIdle ==
    /\ wpPc = "idle"
    /\ wpTables = <<>>
    /\ numWorkers = 0
    /\ failTables = {}
    /\ jobs = <<>>
    /\ jobsClosed = FALSE
    /\ results = <<>>
    /\ resultsClosed = FALSE
    /\ subPc = "idle"
    /\ subI = 1
    /\ wState = <<>>
    /\ wJob = <<>>
    /\ wg = 0
    /\ colI = 0
    /\ allResults = <<>>
    /\ errors = <<>>
    /\ collected = <<>>
    /\ wpRet = [data |-> <<>>, err |-> "nil"]
    /\ wpPanic = FALSE

\* The batch processor while another component is under study: never called
BatchIdle ==
    /\ bpPc = "idle"
    /\ bpData = <<>>
    /\ batchSize = 1
    /\ bpI = 0
    /\ bpCalls = <<>>
    /\ bpRet = "nil"

\* The absence of a snapshot file
NoFile == [ID |-> -1, Timestamp |-> -1, Tables |-> <<>>,
           PreMigrationState |-> <<>>, MigratedData |-> <<>>,
           Status |-> "nofile"]

\* No operation of the manager has been called
NoCall == [op |-> "none", id |-> -1, maxDuration |-> 0, ret |-> "nil"]

\* The rollback manager while another component is under study: the
\* snapshot directory is empty and no operation is called
ManagerIdle ==
    /\ rmNow = 0
    /\ rmFiles = [id \in 0..MaxTime |-> NoFile]
    /\ rmMissing = {}
    /\ rmLast = NoCall
    /\ rmTarget = <<>>

\* The validator while another component is under study: never called
ValidatorIdle ==
    /\ valPc = "idle"
    /\ valTables = <<>>
    /\ valFailS = {}
    /\ valFailT = {}
    /\ valPre = <<>>
    /\ valPre2 = <<>>
    /\ valPost = <<>>
    /\ valFetches = <<>>

\* The tasks that call the tracker: task 0 reads, the others write
PTTasks == 0..MaxWriters

PTWriters == 1..MaxWriters

\* A task outside any call
PTAtRest == [pc |-> "idle", op |-> "none", arg |-> 0, tmp |-> 0]

\* No call made yet
NoCalls == [made |-> 0, processedRows |-> 0, processedTables |-> 0,
            errors |-> 0]

\* monitoring.NewProgressTracker
NewProgressTracker == [processedRows |-> 0, processedTables |-> 0, errors |-> 0]

\* The tracker while another component is under study: no caller
TrackerIdle ==
    /\ ptTask = [t \in PTTasks |-> PTAtRest]
    /\ ptMu = [writer |-> -1, readers |-> 0]
    /\ ptCounters = NewProgressTracker
    /\ ptCalls = NoCalls
    /\ ptMetrics = [ProcessedRows |-> 0, ProcessedTables |-> 0, ErrorCount |-> 0]

\* NewMigrationEngine has returned and ExecuteMigration was never called
RunsIdle ==
    /\ exPc = "idle"
    /\ exRun = 0
    /\ exValidate = FALSE
    /\ exDefer = FALSE
    /\ lgClosed = FALSE
    /\ lgQueued = 0
    /\ lgPanic = FALSE
    /\ pmState = [r \in 1..MaxRuns |-> "none"]

AuxIdle == TrackerIdle /\ RunsIdle

\* ------------------------------------------ ProcessTablesWithWorkerPool
\* The rows the client holds for table t, as fetchTableData returns them
PoolRowCount(t) == 1 + (t % 2)

\* A row is known by the table that holds it and its number in the table
PoolFetch(t) == [i \in 1..PoolRowCount(t) |-> [id |-> <<t, i>>, name |-> "n"]]

\* NewWorkerPool: the capacity of wp.jobs and of wp.results
QueueCap(n) == n * 2

\* The call, with its arguments: N distinct tables, W workers, and the set
\* of tables whose fetch fails
InitWP ==
    /\ EngineIdle
    /\ BatchIdle
    /\ ManagerIdle
    /\ ValidatorIdle
    /\ AuxIdle
    /\ \E n \in 0..MaxPoolTables, w \in 1..MaxWorkers :
          /\ wpTables = [i \in 1..n |-> i]
          /\ numWorkers = w
          /\ failTables \in SUBSET (1..n)
    /\ wpPc = "call"
    /\ jobs = <<>>
    /\ jobsClosed = FALSE
    /\ results = <<>>
    /\ resultsClosed = FALSE
    /\ subPc = "idle"
    /\ subI = 1
    /\ wState = [w \in 1..MaxWorkers |-> "none"]
    /\ wJob = [w \in 1..MaxWorkers |-> 0]
    /\ wg = 0
    /\ colI = 0
    /\ allResults = <<>>
    /\ errors = <<>>
    /\ collected = <<>>
    /\ wpRet = [data |-> <<>>, err |-> "nil"]
    /\ wpPanic = FALSE

\* Mutant of Started: Start runs its loop once more
StartedOneMore(n) ==
    [w \in 1..MaxWorkers |-> IF w <= n + 1 THEN "idle" ELSE "none"]

\* WorkerPool.Start: one worker goroutine for each i < wp.numWorkers
Started(n) ==
    [w \in 1..MaxWorkers |-> IF w <= n THEN "idle" ELSE "none"]

\* Lines 158-176: the empty-list check, NewWorkerPool, Start (wg.Add(1) and
\* one goroutine per worker) and the start of the submission goroutine
PoolCall ==
    /\ wpPc = "call"
    /\ UNCHANGED notPool
    /\ IF Len(wpTables) = 0
       THEN /\ wpRet' = [data |-> <<>>, err |-> "no tables to process"]
            /\ wpPc' = "returned"
            /\ UNCHANGED <<wState, wg, subPc>>
       ELSE /\ wState' = Started(numWorkers)
            /\ wg' = numWorkers
            /\ subPc' = "submit"
            /\ wpPc' = "collect"
            /\ UNCHANGED wpRet
    /\ UNCHANGED <<wpTables, numWorkers, failTables, jobs, jobsClosed, results,
                   resultsClosed, subI, wJob, colI, allResults, errors,
                   collected, wpPanic>>

\* SubmitJob inside the submission loop: wp.jobs <- job blocks while the
\* channel is full
Submit ==
    /\ subPc = "submit"
    /\ UNCHANGED notPool
    /\ subI <= Len(wpTables)
    /\ Len(jobs) < QueueCap(numWorkers)
    /\ jobs' = Append(jobs, wpTables[subI])
    /\ subI' = subI + 1
    /\ UNCHANGED <<wpPc, wpTables, numWorkers, failTables, jobsClosed, results,
                   resultsClosed, subPc, wState, wJob, wg, colI, allResults,
                   errors, collected, wpRet, wpPanic>>

\* Mutant of CloseJobs: Close goes on to wait without closing wp.jobs
CloseJobsNotClosing ==
    /\ subPc = "submit"
    /\ UNCHANGED notPool
    /\ subI > Len(wpTables)
    /\ subPc' = "wait"
    /\ UNCHANGED <<wpPc, wpTables, numWorkers, failTables, jobs, jobsClosed,
                   results, resultsClosed, subI, wState, wJob, wg, colI,
                   allResults, errors, collected, wpRet, wpPanic>>

\* WorkerPool.Close, line 146: close(wp.jobs) once every job is enqueued
CloseJobs ==
    /\ subPc = "submit"
    /\ UNCHANGED notPool
    /\ subI > Len(wpTables)
    /\ jobsClosed' = TRUE
    /\ subPc' = "wait"
    /\ UNCHANGED <<wpPc, wpTables, numWorkers, failTables, jobs, results,
                   resultsClosed, subI, wState, wJob, wg, colI, allResults,
                   errors, collected, wpRet, wpPanic>>

\* Mutant of WaitWorkers: Close does not wait for the workers
WaitWorkersNoWait ==
    /\ subPc = "wait"
    /\ UNCHANGED notPool
    /\ subPc' = "close"
    /\ UNCHANGED <<wpPc, wpTables, numWorkers, failTables, jobs, jobsClosed,
                   results, resultsClosed, subI, wState, wJob, wg, colI,
                   allResults, errors, collected, wpRet, wpPanic>>

\* WorkerPool.Close, line 147: wp.wg.Wait() returns when the counter is zero
WaitWorkers ==
    /\ subPc = "wait"
    /\ UNCHANGED notPool
    /\ wg = 0
    /\ subPc' = "close"
    /\ UNCHANGED <<wpPc, wpTables, numWorkers, failTables, jobs, jobsClosed,
                   results, resultsClosed, subI, wState, wJob, wg, colI,
                   allResults, errors, collected, wpRet, wpPanic>>

\* WorkerPool.Close, line 148: close(wp.results)
CloseResults ==
    /\ subPc = "close"
    /\ UNCHANGED notPool
    /\ resultsClosed' = TRUE
    /\ subPc' = "done"
    /\ UNCHANGED <<wpPc, wpTables, numWorkers, failTables, jobs, jobsClosed,
                   results, subI, wState, wJob, wg, colI, allResults, errors,
                   collected, wpRet, wpPanic>>

\* worker, line 50: `for job := range wp.jobs` receives a job
WorkerTake(w) ==
    /\ wState[w] = "idle"
    /\ UNCHANGED notPool
    /\ jobs # <<>>
    /\ wJob' = [wJob EXCEPT ![w] = Head(jobs)]
    /\ jobs' = Tail(jobs)
    /\ wState' = [wState EXCEPT ![w] = "fetching"]
    /\ UNCHANGED <<wpPc, wpTables, numWorkers, failTables, jobsClosed, results,
                   resultsClosed, subPc, subI, wg, colI, allResults, errors,
                   collected, wpRet, wpPanic>>

\* worker, line 54: fetchTableData returns
WorkerFetch(w) ==
    /\ wState[w] = "fetching"
    /\ UNCHANGED notPool
    /\ wState' = [wState EXCEPT ![w] = "sending"]
    /\ UNCHANGED <<wpPc, wpTables, numWorkers, failTables, jobs, jobsClosed,
                   results, resultsClosed, subPc, subI, wJob, wg, colI,
                   allResults, errors, collected, wpRet, wpPanic>>

\* worker, lines 56-60: the TableResult of the worker's job
TableResult(t) ==
    IF t \in failTables
    THEN [TableName |-> t, Data |-> <<>>, Error |-> "fetch failed"]
    ELSE [TableName |-> t, Data |-> PoolFetch(t), Error |-> "nil"]

\* worker, line 61: wp.results <- result blocks while the channel is full,
\* and panics on a closed channel
WorkerSend(w) ==
    /\ wState[w] = "sending"
    /\ UNCHANGED notPool
    /\ IF resultsClosed
       THEN /\ wpPanic' = TRUE
            /\ wState' = [wState EXCEPT ![w] = "exited"]
            /\ UNCHANGED <<results, wJob>>
       ELSE /\ Len(results) < QueueCap(numWorkers)
            /\ results' = Append(results, TableResult(wJob[w]))
            /\ wState' = [wState EXCEPT ![w] = "idle"]
            /\ wJob' = [wJob EXCEPT ![w] = 0]
            /\ UNCHANGED wpPanic
    /\ UNCHANGED <<wpPc, wpTables, numWorkers, failTables, jobs, jobsClosed,
                   resultsClosed, subPc, subI, wg, colI, allResults, errors,
                   collected, wpRet>>

\* worker, lines 48-50: the range loop ends on the closed, drained channel
\* and the deferred wp.wg.Done() runs
WorkerExit(w) ==
    /\ wState[w] = "idle"
    /\ UNCHANGED notPool
    /\ jobs = <<>>
    /\ jobsClosed
    /\ wState' = [wState EXCEPT ![w] = "exited"]
    /\ wg' = wg - 1
    /\ UNCHANGED <<wpPc, wpTables, numWorkers, failTables, jobs, jobsClosed,
                   results, resultsClosed, subPc, subI, wJob, colI, allResults,
                   errors, collected, wpRet, wpPanic>>

\* Mutant of TagRows: the rows are tagged with the first requested table
TagRowsFirstTable(res) ==
    [j \in 1..Len(res.Data) |->
        [id |-> res.Data[j].id, name |-> res.Data[j].name,
         _source_table |-> wpTables[1]]]

\* Lines 191-193: every row of a result is tagged with the result's table
TagRows(res) ==
    [j \in 1..Len(res.Data) |->
        [id |-> res.Data[j].id, name |-> res.Data[j].name,
         _source_table |-> res.TableName]]

\* A receive from the closed, drained result channel yields the zero value
ZeroResult == [TableName |-> 0, Data |-> <<>>, Error |-> "nil"]

\* Lines 182-197: one iteration of the collection loop
Collect ==
    /\ wpPc = "collect"
    /\ UNCHANGED notPool
    /\ colI < Len(wpTables)
    /\ results # <<>> \/ resultsClosed
    /\ LET res == IF results # <<>> THEN Head(results) ELSE ZeroResult IN
        /\ results' = IF results # <<>> THEN Tail(results) ELSE results
        /\ collected' = Append(collected, res.TableName)
        /\ IF res.Error # "nil"
           THEN /\ errors' = Append(errors, [table |-> res.TableName, err |-> res.Error])
                /\ UNCHANGED allResults
           ELSE /\ allResults' = allResults \o TagRows(res)
                /\ UNCHANGED errors
    /\ colI' = colI + 1
    /\ UNCHANGED <<wpPc, wpTables, numWorkers, failTables, jobs, jobsClosed,
                   resultsClosed, subPc, subI, wState, wJob, wg, wpRet, wpPanic>>

\* Mutant of PoolReturn: the rows of the tables that succeeded are returned
\* along with the error
PoolReturnPartial ==
    /\ wpPc = "collect"
    /\ UNCHANGED notPool
    /\ colI >= Len(wpTables)
    /\ wpRet' = IF Len(errors) > 0
                THEN [data |-> allResults, err |-> "failed to process tables"]
                ELSE [data |-> allResults, err |-> "nil"]
    /\ wpPc' = "returned"
    /\ UNCHANGED <<wpTables, numWorkers, failTables, jobs, jobsClosed, results,
                   resultsClosed, subPc, subI, wState, wJob, wg, colI,
                   allResults, errors, collected, wpPanic>>

\* Lines 199-203: the aggregate result
PoolReturn ==
    /\ wpPc = "collect"
    /\ UNCHANGED notPool
    /\ colI >= Len(wpTables)
    /\ wpRet' = IF Len(errors) > 0
                THEN [data |-> <<>>, err |-> "failed to process tables"]
                ELSE [data |-> allResults, err |-> "nil"]
    /\ wpPc' = "returned"
    /\ UNCHANGED <<wpTables, numWorkers, failTables, jobs, jobsClosed, results,
                   resultsClosed, subPc, subI, wState, wJob, wg, colI,
                   allResults, errors, collected, wpPanic>>

NextWP ==
    \/ PoolCall
    \/ Submit
    \/ CloseJobs
    \/ WaitWorkers
    \/ CloseResults
    \/ \E w \in 1..MaxWorkers : WorkerTake(w)
    \/ \E w \in 1..MaxWorkers : WorkerFetch(w)
    \/ \E w \in 1..MaxWorkers : WorkerSend(w)
    \/ \E w \in 1..MaxWorkers : WorkerExit(w)
    \/ Collect
    \/ PoolReturn

SpecWP == InitWP /\ [][NextWP]_vars

\* The goroutines of the call: the caller, the submission goroutine started
\* at line 168 and the workers started by Start
CallerStep == PoolCall \/ Collect \/ PoolReturn

SubmitterStep == Submit \/ CloseJobs \/ WaitWorkers \/ CloseResults

WorkerStep(w) ==
    WorkerTake(w) \/ WorkerFetch(w) \/ WorkerSend(w) \/ WorkerExit(w)

\* The Go scheduler runs every goroutine that stays runnable: a goroutine
\* whose next step remains possible eventually takes it
SpecWPFair ==
    /\ SpecWP
    /\ WF_vars(CallerStep)
    /\ WF_vars(SubmitterStep)
    /\ \A w \in 1..MaxWorkers : WF_vars(WorkerStep(w))

\* ------------------------------------- BatchProcessor.ProcessInBatches
\* The call, with its arguments: L records and the batch size B >= 1
InitBP ==
    /\ EngineIdle
    /\ PoolIdle
    /\ ManagerIdle
    /\ ValidatorIdle
    /\ AuxIdle
    /\ \E l \in 0..MaxLen, b \in 1..MaxChunk :
          /\ bpData = [i \in 1..l |-> i]
          /\ batchSize = b
    /\ bpPc = "call"
    /\ bpI = 0
    /\ bpCalls = <<>>
    /\ bpRet = "nil"

\* Lines 218-220: nothing to do for an empty record set
BatchCall ==
    /\ bpPc = "call"
    /\ UNCHANGED notBatch
    /\ bpPc' = IF Len(bpData) = 0 THEN "returned" ELSE "loop"
    /\ UNCHANGED <<bpData, batchSize, bpI, bpCalls, bpRet>>

\* Lines 223-226: the end of the batch that starts at i
BatchEnd(i) == Min(i + batchSize, Len(bpData))

\* Mutant of BatchAt: the batch is cut from the start of data, data[0:end-i]
BatchAtFromStart(i) == SubSeq(bpData, 1, BatchEnd(i) - i)

\* Line 227: batch := data[i:end]
BatchAt(i) == SubSeq(bpData, i + 1, BatchEnd(i))

\* Mutant of NextBatch: the loop steps by one record, not by one batch
NextBatchByOne(i) == i + 1

\* Line 222: the loop's post statement
NextBatch(i) == i + batchSize

\* Lines 228-230: processFunc returned an error
BatchFailed ==
    /\ bpRet' = "failed to process the batch"
    /\ bpPc' = "returned"
    /\ UNCHANGED bpI

\* Lines 222-234: one iteration of the loop, one processFunc call
BatchStep ==
    /\ bpPc = "loop"
    /\ UNCHANGED notBatch
    /\ bpI < Len(bpData)
    /\ \E ok \in BOOLEAN :
        /\ bpCalls' = Append(bpCalls, [batch |-> BatchAt(bpI), ok |-> ok])
        /\ IF ~ok
           THEN BatchFailed
           ELSE /\ bpI' = NextBatch(bpI)
                /\ bpPc' = IF NextBatch(bpI) < Len(bpData) THEN "loop" ELSE "returned"
                /\ UNCHANGED bpRet
    /\ UNCHANGED <<bpData, batchSize>>

NextBP ==
    \/ BatchCall
    \/ BatchStep

SpecBP == InitBP /\ [][NextBP]_vars

\* ------------------------------------------------------ RollBackManager
\* config.Tables of the migration the snapshots are made for
RMTables == <<1, 2>>

\* The rows the target holds in table t when it has the table
RMRowCount(t) == t

\* The maxAge arguments of CleanupOldSnapshots, in seconds
Ages == {0, 1}

\* The snapshot IDs an operation is called with: those of the seconds so far
CallIds == 0..rmNow

\* The records UpdateSnapshotWithMigratedData is called with
UpdateInputs ==
    {<<Row(1, 1)>>, <<Row(2, 1), Row(1, 2)>>}

\* The snapshot directory holds a file for this ID
Exists(id) == rmFiles[id] # NoFile

\* The number of migrated rows a snapshot file stores
RECURSIVE StoredIn(_, _)
StoredIn(snapshot, tables) ==
    IF tables = <<>> THEN 0
    ELSE Len(snapshot.MigratedData[Head(tables)]) + StoredIn(snapshot, Tail(tables))

Stored(id) == IF Exists(id) THEN StoredIn(rmFiles[id], rmFiles[id].Tables) ELSE 0

\* The number of migrated rows the whole directory stores
RECURSIVE StoredUpTo(_)
StoredUpTo(id) == IF id < 0 THEN 0 ELSE Stored(id) + StoredUpTo(id - 1)

\* The directory is empty; the target has every table, or lacks the last one
InitRM ==
    /\ EngineIdle
    /\ PoolIdle
    /\ BatchIdle
    /\ ValidatorIdle
    /\ AuxIdle
    /\ rmNow = 0
    /\ rmFiles = [id \in 0..MaxTime |-> NoFile]
    /\ rmMissing \in {{}, {RMTables[Len(RMTables)]}}
    /\ rmLast = NoCall
    /\ rmTarget = [t \in Range(RMTables) |->
                      IF t \in rmMissing THEN 0 ELSE RMRowCount(t)]

\* A second passes
Tick ==
    /\ rmNow < MaxTime
    /\ UNCHANGED notManager
    /\ rmNow' = rmNow + 1
    /\ UNCHANGED <<rmFiles, rmMissing, rmLast, rmTarget>>

\* The migration that goes with the snapshots creates a table the target
\* lacked and fills it
TargetImport ==
    /\ rmMissing # {}
    /\ UNCHANGED notManager
    /\ \E t \in rmMissing :
          /\ rmMissing' = rmMissing \ {t}
          /\ rmTarget' = [rmTarget EXCEPT ![t] = RMRowCount(t)]
    /\ UNCHANGED <<rmNow, rmFiles, rmLast>>

\* captureTableState: a failed fetch means the table is not there
captureTableState(tableName) ==
    IF tableName \in rmMissing
    THEN [TableName |-> tableName, RowCount |-> 0, ExistedBefore |-> FALSE]
    ELSE [TableName |-> tableName, RowCount |-> rmTarget[tableName],
          ExistedBefore |-> TRUE]

\* saveSnapshot: the file named after the snapshot's ID is (over)written
saveSnapshot(files, snapshot) == [files EXCEPT ![snapshot.ID] = snapshot]

\* CreateSnapshot: the ID is made of the source, the target and the second
CreateSnapshot ==
    /\ UNCHANGED notManager
    /\ LET snapshot ==
            [ID |-> rmNow, Timestamp |-> rmNow, Tables |-> RMTables,
             PreMigrationState |->
                [t \in Range(RMTables) |-> captureTableState(t)],
             MigratedData |-> [t \in Range(RMTables) |-> <<>>],
             Status |-> "in_progress"]
       IN /\ rmFiles' = saveSnapshot(rmFiles, snapshot)
          /\ rmLast' = [op |-> "CreateSnapshot", id |-> snapshot.ID,
                        maxDuration |-> 0, ret |-> "nil"]
    /\ UNCHANGED <<rmNow, rmMissing, rmTarget>>

\* The record of a call on a snapshot ID
Called(op, id, ret) == [op |-> op, id |-> id, maxDuration |-> 0, ret |-> ret]

\* The rows of data tagged with table t, in order, without their tag
StrippedFor(data, t) ==
    LET rows == SelectSeq(data, LAMBDA r : r._source_table = t)
    IN [j \in 1..Len(rows) |-> [id |-> rows[j].id, name |-> rows[j].name]]

\* Mutant of WithMigratedData: the rows of a table replace the stored ones
WithMigratedDataReplacing(snapshot, data) ==
    [snapshot EXCEPT !.MigratedData =
        [t \in DOMAIN @ |->
            IF StrippedFor(data, t) # <<>> THEN StrippedFor(data, t) ELSE @[t]]]

\* Lines 194-209: the rows are grouped by table, without their tag
WithMigratedData(snapshot, data) ==
    [snapshot EXCEPT !.MigratedData =
        [t \in DOMAIN @ |->
            @[t] \o [j \in 1..Len(SelectSeq(data, LAMBDA r : r._source_table = t)) |->
                        LET r == SelectSeq(data, LAMBDA q : q._source_table = t)[j]
                        IN [id |-> r.id, name |-> r.name]]]]

\* UpdateSnapshotWithMigratedData(snapshotID, data)
UpdateSnapshotWithMigratedData(id, data) ==
    /\ UNCHANGED notManager
    /\ StoredUpTo(MaxTime) + Len(data) <= MaxMigrated
    /\ IF ~Exists(id)
       THEN /\ rmLast' = Called("UpdateSnapshotWithMigratedData", id,
                                "failed to load snapshot")
            /\ UNCHANGED rmFiles
       ELSE /\ rmFiles' = saveSnapshot(rmFiles, WithMigratedData(rmFiles[id], data))
            /\ rmLast' = Called("UpdateSnapshotWithMigratedData", id, "nil")
    /\ UNCHANGED <<rmNow, rmMissing, rmTarget>>

\* Lines 231-237 and 242-247: the loaded snapshot gets the status and is saved
MarkSnapshot(op, id, status) ==
    /\ UNCHANGED notManager
    /\ IF ~Exists(id)
       THEN /\ rmLast' = Called(op, id, "failed to read snapshot file")
            /\ UNCHANGED rmFiles
       ELSE /\ rmFiles' = saveSnapshot(rmFiles, [rmFiles[id] EXCEPT !.Status = status])
            /\ rmLast' = Called(op, id, "nil")
    /\ UNCHANGED <<rmNow, rmMissing, rmTarget>>

MarkSnapshotCompleted(id) == MarkSnapshot("MarkSnapshotCompleted", id, "completed")

MarkSnapshotFailed(id) == MarkSnapshot("MarkSnapshotFailed", id, "failed")

\* Mutant of AlreadyRolledBack: the status is not looked at
AlreadyRolledBackNever(snapshot) == FALSE

\* Line 259: the latch
AlreadyRolledBack(snapshot) == snapshot.Status = "rolled_back"

\* Mutant of clearTable: the rows of the table are deleted
clearTableDeletes(tgt, tableName) == [tgt EXCEPT ![tableName] = 0]

\* clearTable: the DELETE is a TODO, the action is only logged
clearTable(tgt, tableName) == tgt

\* dropTable: clears the table instead of dropping it
dropTable(tgt, tableName) == clearTable(tgt, tableName)

\* Mutant of removeMigratedData: the migrated rows are deleted
removeMigratedDataDeletes(tgt, tableName, migratedData) ==
    [tgt EXCEPT ![tableName] = IF @ > Len(migratedData) THEN @ - Len(migratedData) ELSE 0]

\* removeMigratedData: the delete by primary key is a TODO, the rows are
\* only logged
removeMigratedData(tgt, tableName, migratedData) == tgt

\* rollbackTable
rollbackTable(tgt, tableName, preState, migratedData) ==
    IF ~preState.ExistedBefore
    THEN dropTable(tgt, tableName)
    ELSE removeMigratedData(tgt, tableName, migratedData)

\* Lines 264-272: the loop over snapshot.PreMigrationState; a table's error
\* is logged and the loop goes on
RECURSIVE rollbackTables(_, _, _)
rollbackTables(tgt, snapshot, tables) ==
    IF tables = <<>> THEN tgt
    ELSE rollbackTables(
            rollbackTable(tgt, Head(tables),
                          snapshot.PreMigrationState[Head(tables)],
                          snapshot.MigratedData[Head(tables)]),
            snapshot, Tail(tables))

\* RollBackMigration(snapshotID): the one effect is the status of the saved
\* snapshot.
RollBackMigration(id) ==
    /\ UNCHANGED notManager
    /\ IF ~Exists(id)
       THEN /\ rmLast' = Called("RollBackMigration", id, "failed to load the snapshot")
            /\ UNCHANGED <<rmFiles, rmTarget>>
       ELSE IF AlreadyRolledBack(rmFiles[id])
       THEN /\ rmLast' = Called("RollBackMigration", id, "has already been rolled back")
            /\ UNCHANGED <<rmFiles, rmTarget>>
       ELSE /\ rmTarget' = rollbackTables(rmTarget, rmFiles[id], rmFiles[id].Tables)
            /\ rmFiles' = saveSnapshot(rmFiles,
                                [rmFiles[id] EXCEPT !.Status = "rolled_back"])
            /\ rmLast' = Called("RollBackMigration", id, "nil")
    /\ UNCHANGED <<rmNow, rmMissing>>

\* Mutant of Removable: the age of the snapshot is not looked at
RemovableAnyAge(snapshot, cutoffTime) ==
    snapshot.Status = "completed" \/ snapshot.Status = "rolled-back"

\* Line 373: the snapshots CleanupOldSnapshots removes
Removable(snapshot, cutoffTime) ==
    /\ snapshot.Timestamp < cutoffTime
    /\ (snapshot.Status = "completed" \/ snapshot.Status = "rolled-back")

\* CleanupOldSnapshots(maxDuration): every snapshot ListSnapshots returns is
\* looked at, and the file of a removable one is removed
CleanupOldSnapshots(maxDuration) ==
    /\ UNCHANGED notManager
    /\ LET cutoffTime == rmNow - maxDuration IN
        /\ rmFiles' = [id \in DOMAIN rmFiles |->
                          IF Exists(id) /\ Removable(rmFiles[id], cutoffTime)
                          THEN NoFile ELSE rmFiles[id]]
        /\ rmLast' = [op |-> "CleanupOldSnapshots", id |-> -1,
                      maxDuration |-> maxDuration, ret |-> "nil"]
    /\ UNCHANGED <<rmNow, rmMissing, rmTarget>>

NextRM ==
    \/ Tick
    \/ TargetImport
    \/ CreateSnapshot
    \/ \E id \in CallIds, data \in UpdateInputs :
          UpdateSnapshotWithMigratedData(id, data)
    \/ \E id \in CallIds : MarkSnapshotCompleted(id)
    \/ \E id \in CallIds : MarkSnapshotFailed(id)
    \/ \E id \in CallIds : RollBackMigration(id)
    \/ \E maxDuration \in Ages : CleanupOldSnapshots(maxDuration)

SpecRM == InitRM /\ [][NextRM]_vars

\* --------------------------------------------------- MigrationVaildator
\* The validator is called on its own: PreMigrationValidation twice, then
\* PostMigationValidation with the first run's results, all three with the
\* same tables argument. The source holds Row(t, 1..source[t]); the target
\* holds the same rows, or rows that differ from them in one place.

\* The tables arguments the calls are made with
ValTableLists == {<<1>>, <<1, 2>>, <<2, 1>>}

\* The rows of table t when it holds n of them
RowsOf(t, n) == [i \in 1..n |-> Row(t, i)]

\* A field value other than v
Changed(f, v) == IF f = "id" THEN v + 1 ELSE "m"

\* What the target table may hold when the source table holds rows: the same
\* rows, one field of one row changed, the last row missing, one row more
TargetVariants(t, rows) ==
    {rows}
    \cup {[rows EXCEPT ![j][f] = Changed(f, @)] :
            j \in 1..Len(rows), f \in DataFields}
    \cup {SubSeq(rows, 1, Len(rows) - 1)}
    \cup {Append(rows, Row(t, Len(rows) + 1))}

InitVal ==
    /\ EngineAtRest
    /\ PoolIdle
    /\ BatchIdle
    /\ ManagerIdle
    /\ AuxIdle
    /\ \E n1 \in 0..MaxVRows, n2 \in 0..1 :
        \E d1 \in TargetVariants(1, RowsOf(1, n1)),
           d2 \in TargetVariants(2, RowsOf(2, n2)) :
            /\ source = [t \in 1..MaxTables |->
                            IF t = 1 THEN n1 ELSE IF t = 2 THEN n2 ELSE 0]
            /\ target = [t \in 1..MaxTables |->
                            IF t = 1 THEN d1 ELSE IF t = 2 THEN d2 ELSE <<>>]
    /\ valPc = "pre"
    /\ valTables \in ValTableLists
    /\ valFailS \in SUBSET Range(valTables)
    /\ valFailT \in SUBSET Range(valTables)
    /\ valPre = <<>>
    /\ valPre2 = <<>>
    /\ valPost = <<>>
    /\ valFetches = <<>>

\* The FetchAllData calls of one PreMigrationValidation: one per table
PreFetches ==
    [i \in 1..Len(valTables) |->
        [client |-> "source", table |-> valTables[i],
         ok |-> valTables[i] \notin valFailS]]

\* Mutant of ValPre: the fetch consumes the rows it returns
ValPreDraining ==
    /\ valPc = "pre"
    /\ valPre' = PreMigrationValidation(valTables, Range(valTables) \ valFailS)
    /\ valFetches' = valFetches \o PreFetches
    /\ valPc' = "again"
    /\ source' = [t \in DOMAIN source |->
                    IF t \in Range(valTables) \ valFailS THEN 0 ELSE source[t]]
    /\ UNCHANGED <<target, valTables, valFailS, valFailT, valPre2, valPost>>
    /\ UNCHANGED notValidator

\* PreMigrationValidation(valTables), the first call
ValPre ==
    /\ valPc = "pre"
    /\ valPre' = PreMigrationValidation(valTables, Range(valTables) \ valFailS)
    /\ valFetches' = valFetches \o PreFetches
    /\ valPc' = "again"
    /\ UNCHANGED <<source, target, valTables, valFailS, valFailT, valPre2,
                   valPost>>
    /\ UNCHANGED notValidator

\* PreMigrationValidation(valTables), the second call
ValPreAgain ==
    /\ valPc = "again"
    /\ valPre2' = PreMigrationValidation(valTables, Range(valTables) \ valFailS)
    /\ valFetches' = valFetches \o PreFetches
    /\ valPc' = "post"
    /\ UNCHANGED <<source, target, valTables, valFailS, valFailT, valPre,
                   valPost>>
    /\ UNCHANGED notValidator

\* One iteration of the loop of PostMigationValidation(valTables, valPre);
\* the call returns after the iteration of the last table
ValPostTable ==
    /\ valPc = "post"
    /\ LET i == Len(valPost) + 1
           table == valTables[i]
       IN \E keys \in [1..CheckRows -> DataFields] :
            /\ valPost' = Append(valPost,
                                 PostResult(table, table \notin valFailT,
                                            target[table], valPre, keys))
            /\ valFetches' = Append(valFetches,
                                    [client |-> "target", table |-> table,
                                     ok |-> table \notin valFailT])
            /\ valPc' = IF i = Len(valTables) THEN "done" ELSE "post"
    /\ UNCHANGED <<source, target, valTables, valFailS, valFailT, valPre,
                   valPre2>>
    /\ UNCHANGED notValidator

NextVal ==
    \/ ValPre
    \/ ValPreAgain
    \/ ValPostTable

SpecVal == InitVal /\ [][NextVal]_vars

\* ------------------------------------------------------- ProcessTracker
\* Writer tasks call UpdateProgress, CompletedTable and AddError, MaxOps
\* times in all, while task 0 calls GetMetrics again and again. A call is a sequence
\* of steps, one per access to the shared state: the atomic add is one step,
\* processedTables++ and the append to errors under the lock are a read and
\* a write.

\* The row counts UpdateProgress is called with
Increments == {1, 2}

WriterOps == {"UpdateProgress", "CompletedTable", "AddError"}

InitPT ==
    /\ EngineIdle
    /\ PoolIdle
    /\ BatchIdle
    /\ ManagerIdle
    /\ ValidatorIdle
    /\ RunsIdle
    /\ ptTask = [t \in PTTasks |-> PTAtRest]
    /\ ptMu = [writer |-> -1, readers |-> 0]
    /\ ptCounters = NewProgressTracker
    /\ ptCalls = NoCalls
    /\ ptMetrics = [ProcessedRows |-> 0, ProcessedTables |-> 0, ErrorCount |-> 0]

\* What the call adds to the sum of all calls made
Counted(calls, op, n) ==
    CASE op = "UpdateProgress" ->
            [calls EXCEPT !.made = @ + 1, !.processedRows = @ + n]
      [] op = "CompletedTable" ->
            [calls EXCEPT !.made = @ + 1, !.processedTables = @ + 1]
      [] op = "AddError" ->
            [calls EXCEPT !.made = @ + 1, !.errors = @ + 1]

\* A writer enters UpdateProgress(n), CompletedTable() or AddError(err)
WriterCall(w, op, n) ==
    /\ ptTask[w].pc = "idle"
    /\ ptCalls.made < MaxOps
    /\ ptTask' = [ptTask EXCEPT ![w] =
                    [pc |-> IF op = "UpdateProgress" THEN "add" ELSE "lock",
                     op |-> op, arg |-> n, tmp |-> 0]]
    /\ ptCalls' = Counted(ptCalls, op, n)
    /\ UNCHANGED <<ptMu, ptCounters, ptMetrics>>
    /\ UNCHANGED notTracker

\* UpdateProgress, line 246: atomic.AddInt64(&pt.processedRows, n)
AtomicAdd(w) ==
    /\ ptTask[w].pc = "add"
    /\ ptCounters' = [ptCounters EXCEPT !.processedRows = @ + ptTask[w].arg]
    /\ ptTask' = [ptTask EXCEPT ![w].pc = "lock"]
    /\ UNCHANGED <<ptMu, ptCalls, ptMetrics>>
    /\ UNCHANGED notTracker

\* Mutant of CanLock: Lock returns whoever holds the mutex
CanLockAlways == TRUE

\* pt.mu.Lock() returns when no task holds the mutex, for writing or reading
CanLock == ptMu.writer = -1 /\ ptMu.readers = 0

\* pt.mu.Lock() in UpdateProgress (247), CompletedTable (261), AddError (268)
Lock(w) ==
    /\ ptTask[w].pc = "lock"
    /\ CanLock
    /\ ptMu' = [ptMu EXCEPT !.writer = w]
    /\ ptTask' = [ptTask EXCEPT ![w].pc =
                    IF ptTask[w].op = "UpdateProgress" THEN "unlock" ELSE "read"]
    /\ UNCHANGED <<ptCounters, ptCalls, ptMetrics>>
    /\ UNCHANGED notTracker

\* pt.processedTables++ (263) and append(pt.errors, ...) (270): the read
ReadCounter(w) ==
    /\ ptTask[w].pc = "read"
    /\ ptTask' = [ptTask EXCEPT ![w].pc = "write",
                                ![w].tmp = IF ptTask[w].op = "CompletedTable"
                                           THEN ptCounters.processedTables
                                           ELSE ptCounters.errors]
    /\ UNCHANGED <<ptMu, ptCounters, ptCalls, ptMetrics>>
    /\ UNCHANGED notTracker

\* pt.processedTables++ (263) and append(pt.errors, ...) (270): the write
WriteCounter(w) ==
    /\ ptTask[w].pc = "write"
    /\ ptCounters' = IF ptTask[w].op = "CompletedTable"
                     THEN [ptCounters EXCEPT !.processedTables = ptTask[w].tmp + 1]
                     ELSE [ptCounters EXCEPT !.errors = ptTask[w].tmp + 1]
    /\ ptTask' = [ptTask EXCEPT ![w].pc = "unlock"]
    /\ UNCHANGED <<ptMu, ptCalls, ptMetrics>>
    /\ UNCHANGED notTracker

\* pt.mu.Unlock(), and the call returns
Unlock(w) ==
    /\ ptTask[w].pc = "unlock"
    /\ ptMu' = [ptMu EXCEPT !.writer = IF @ = w THEN -1 ELSE @]
    /\ ptTask' = [ptTask EXCEPT ![w] = PTAtRest]
    /\ UNCHANGED <<ptCounters, ptCalls, ptMetrics>>
    /\ UNCHANGED notTracker

\* Task 0 enters GetMetrics
GetMetricsCall ==
    /\ ptTask[0].pc = "idle"
    /\ ptTask' = [ptTask EXCEPT ![0] =
                    [pc |-> "rlock", op |-> "GetMetrics", arg |-> 0, tmp |-> 0]]
    /\ UNCHANGED <<ptMu, ptCounters, ptCalls, ptMetrics>>
    /\ UNCHANGED notTracker

\* GetMetrics, line 275: pt.mu.RLock() returns when no task holds the write
\* lock
RLock ==
    /\ ptTask[0].pc = "rlock"
    /\ ptMu.writer = -1
    /\ ptMu' = [ptMu EXCEPT !.readers = @ + 1]
    /\ ptTask' = [ptTask EXCEPT ![0].pc = "copy"]
    /\ UNCHANGED <<ptCounters, ptCalls, ptMetrics>>
    /\ UNCHANGED notTracker

\* The most the row counter can hold
RowsCap == MaxOps * 2

\* Line 304 reads pt.processedRows without the atomic load, while writers
\* add to it outside the mutex: with an add pending the read races with it
\* and may return any value; without one it returns the counter
PlainReadOfRows ==
    IF \E w \in PTWriters : ptTask[w].pc = "add"
    THEN 0..RowsCap
    ELSE {ptCounters.processedRows}

\* GetMetrics, lines 302-314: the returned MigrationMetrics
CopyMetrics ==
    /\ ptTask[0].pc = "copy"
    /\ \E rows \in PlainReadOfRows :
        ptMetrics' = [ProcessedRows |-> rows,
                      ProcessedTables |-> ptCounters.processedTables,
                      ErrorCount |-> ptCounters.errors]
    /\ ptTask' = [ptTask EXCEPT ![0].pc = "runlock"]
    /\ UNCHANGED <<ptMu, ptCounters, ptCalls>>
    /\ UNCHANGED notTracker

\* The deferred pt.mu.RUnlock(), and GetMetrics returns
RUnlock ==
    /\ ptTask[0].pc = "runlock"
    /\ ptMu' = [ptMu EXCEPT !.readers = @ - 1]
    /\ ptTask' = [ptTask EXCEPT ![0] = PTAtRest]
    /\ UNCHANGED <<ptCounters, ptCalls, ptMetrics>>
    /\ UNCHANGED notTracker

NextPT ==
    \/ \E w \in PTWriters, op \in WriterOps, n \in Increments :
            WriterCall(w, op, IF op = "UpdateProgress" THEN n ELSE 0)
    \/ \E w \in PTWriters : AtomicAdd(w)
    \/ \E w \in PTWriters : Lock(w)
    \/ \E w \in PTWriters : ReadCounter(w)
    \/ \E w \in PTWriters : WriteCounter(w)
    \/ \E w \in PTWriters : Unlock(w)
    \/ GetMetricsCall
    \/ RLock
    \/ CopyMetrics
    \/ RUnlock

SpecPT == InitPT /\ [][NextPT]_vars

\* ----------------------------- ExecuteMigration: logger and monitor task
\* Calls of ExecuteMigration on one engine, one after another, seen from the
\* logger and the progress monitor: what the phases of a call send to the
\* logger, the start of the monitor task, and the deferred function that
\* stops the monitor and closes the logger. The phases' outcomes are free.

InitEX ==
    /\ EngineIdle
    /\ PoolIdle
    /\ BatchIdle
    /\ ManagerIdle
    /\ ValidatorIdle
    /\ TrackerIdle
    /\ RunsIdle

\* Where a call goes when it panics: the deferred function runs if it is
\* registered, otherwise the panic leaves ExecuteMigration at once
AfterPanic == IF exDefer THEN "stop" ELSE "crashed"

\* n calls of Logger.Info / Error / TableProgress, then on to next: each is
\* a send on logChan, which panics when the channel is closed and waits
\* while the channel is full
LogThen(n, next) ==
    IF n > 0 /\ lgClosed
    THEN /\ lgPanic' = TRUE
         /\ exPc' = AfterPanic
         /\ UNCHANGED lgQueued
    ELSE /\ lgQueued + n <= LogCap
         /\ lgQueued' = lgQueued + n
         /\ exPc' = next
         /\ UNCHANGED lgPanic

\* ExecuteMigration is called on the engine
ExCall ==
    /\ exPc \in {"idle", "returned"}
    /\ exRun < MaxRuns
    /\ exRun' = exRun + 1
    /\ exPc' = "start"
    /\ exValidate' \in BOOLEAN
    /\ exDefer' = FALSE
    /\ UNCHANGED <<lgClosed, lgQueued, lgPanic, pmState>>
    /\ UNCHANGED notRuns

\* Line 179: the call's first log entry
ExStart ==
    /\ exPc = "start"
    /\ LogThen(1, "prevalidate")
    /\ UNCHANGED <<exRun, exValidate, exDefer, lgClosed, pmState>>
    /\ UNCHANGED notRuns

\* Lines 183-208: pre-validation, which logs two entries and may end the call
ExPreValidate ==
    /\ exPc = "prevalidate"
    /\ IF exValidate
       THEN \E valid \in BOOLEAN :
                LogThen(2, IF valid THEN "monitor" ELSE "returned")
       ELSE LogThen(0, "monitor")
    /\ UNCHANGED <<exRun, exValidate, exDefer, lgClosed, pmState>>
    /\ UNCHANGED notRuns

\* Lines 211-216: StartProgressMonitor starts the monitor task, which waits
\* in its select; the function that stops it is deferred
ExStartMonitor ==
    /\ exPc = "monitor"
    /\ pmState' = [pmState EXCEPT ![exRun] = "waiting"]
    /\ exDefer' = TRUE
    /\ exPc' = "dispatch"
    /\ UNCHANGED <<exRun, exValidate, lgClosed, lgQueued, lgPanic>>
    /\ UNCHANGED notRuns

\* Lines 219-235: the migration proper. An unsupported mode returns without
\* a log entry, a failed migration logs its error, a full migration that
\* succeeds logs at least its start and its end
ExDispatch ==
    /\ exPc = "dispatch"
    /\ \E outcome \in {"unsupported", "failed", "migrated"} :
        CASE outcome = "unsupported" -> LogThen(0, "stop")
          [] outcome = "failed" -> LogThen(1, "stop")
          [] outcome = "migrated" -> LogThen(2, "post")
    /\ UNCHANGED <<exRun, exValidate, exDefer, lgClosed, pmState>>
    /\ UNCHANGED notRuns

\* Lines 238-268: post-validation, which logs two entries and may end the
\* call, and the final entry of a successful call
ExFinish ==
    /\ exPc = "post"
    /\ IF exValidate
       THEN \E valid \in BOOLEAN : LogThen(IF valid THEN 3 ELSE 2, "stop")
       ELSE LogThen(1, "stop")
    /\ UNCHANGED <<exRun, exValidate, exDefer, lgClosed, pmState>>
    /\ UNCHANGED notRuns

\* The monitor task of call r waits in its select, part_021 line 374
InSelect(r) == pmState[r] \in {"waiting", "printed"}

\* Mutant of StopMonitor: the stop channel has room for the signal
StopMonitorBuffered ==
    /\ exPc = "stop"
    /\ exPc' = "summary"
    /\ UNCHANGED <<exRun, exValidate, exDefer, lgClosed, lgQueued, lgPanic,
                   pmState>>
    /\ UNCHANGED notRuns

\* Line 213 and part_021 line 377: the send on the unbuffered stop channel
\* and the monitor's receive in its select are one step
StopMonitor ==
    /\ exPc = "stop"
    /\ InSelect(exRun)
    /\ pmState' = [pmState EXCEPT ![exRun] = "final"]
    /\ exPc' = "summary"
    /\ UNCHANGED <<exRun, exValidate, exDefer, lgClosed, lgQueued, lgPanic>>
    /\ UNCHANGED notRuns

\* Line 214: PrintFinalSummary
ExSummary ==
    /\ exPc = "summary"
    /\ exPc' = "close"
    /\ UNCHANGED <<exRun, exValidate, exDefer, lgClosed, lgQueued, lgPanic,
                   pmState>>
    /\ UNCHANGED notRuns

\* Line 215: Logger.Close closes logChan, which panics on a closed channel;
\* then the call returns
ExClose ==
    /\ exPc = "close"
    /\ IF lgClosed
       THEN lgPanic' = TRUE /\ exPc' = "crashed" /\ UNCHANGED lgClosed
       ELSE lgClosed' = TRUE /\ exPc' = "returned" /\ UNCHANGED lgPanic
    /\ UNCHANGED <<exRun, exValidate, exDefer, lgQueued, pmState>>
    /\ UNCHANGED notRuns

\* The monitor task, part_021 lines 375-376: the ticker fires
MonitorTick(r) ==
    /\ InSelect(r)
    /\ pmState' = [pmState EXCEPT ![r] = "printing"]
    /\ UNCHANGED <<exPc, exRun, exValidate, exDefer, lgClosed, lgQueued,
                   lgPanic>>
    /\ UNCHANGED notRuns

\* PrintProgress has returned and the task is back in its select
MonitorPrinted(r) ==
    /\ pmState[r] = "printing"
    /\ pmState' = [pmState EXCEPT ![r] = "printed"]
    /\ UNCHANGED <<exPc, exRun, exValidate, exDefer, lgClosed, lgQueued,
                   lgPanic>>
    /\ UNCHANGED notRuns

\* part_021 lines 378-380: the final update, and the task returns
MonitorFinal(r) ==
    /\ pmState[r] = "final"
    /\ pmState' = [pmState EXCEPT ![r] = "ended"]
    /\ UNCHANGED <<exPc, exRun, exValidate, exDefer, lgClosed, lgQueued,
                   lgPanic>>
    /\ UNCHANGED notRuns

\* processLogs takes an entry from logChan and prints it
LogDrain ==
    /\ lgQueued > 0
    /\ lgQueued' = lgQueued - 1
    /\ UNCHANGED <<exPc, exRun, exValidate, exDefer, lgClosed, lgPanic,
                   pmState>>
    /\ UNCHANGED notRuns

NextEX ==
    \/ ExCall
    \/ ExStart
    \/ ExPreValidate
    \/ ExStartMonitor
    \/ ExDispatch
    \/ ExFinish
    \/ StopMonitor
    \/ ExSummary
    \/ ExClose
    \/ \E r \in 1..MaxRuns : MonitorTick(r)
    \/ \E r \in 1..MaxRuns : MonitorPrinted(r)
    \/ \E r \in 1..MaxRuns : MonitorFinal(r)
    \/ LogDrain

SpecEX == InitEX /\ [][NextEX]_vars

\* A step of the task that runs ExecuteMigration, the stop send aside
ExStep ==
    \/ ExStart
    \/ ExPreValidate
    \/ ExStartMonitor
    \/ ExDispatch
    \/ ExFinish
    \/ ExSummary
    \/ ExClose

\* The Go scheduler runs every task that can take a step. The monitor's
\* select chooses at random among its ready cases, so a stop signal that is
\* offered every time the monitor comes back to the select is received.
SpecEXFair ==
    /\ SpecEX
    /\ WF_vars(ExStep)
    /\ SF_vars(StopMonitor)
    /\ WF_vars(LogDrain)
    /\ \A r \in 1..MaxRuns :
        WF_vars(MonitorPrinted(r)) /\ WF_vars(MonitorFinal(r))

\* --------------------------------------- MigrationEngine.ExecuteMigration
Modes == {"full", "incremental", "scheduled", "invalid"}

TableIds == 1..MaxTables

\* me.Config.Tables: n distinct tables, in configuration order
TableList(n) == [i \in 1..n |-> i]

\* The state NewMigrationEngine and the first lines of ExecuteMigration leave.
\* BatchSize 0 (the zero value, as in TestMigrationConfigValidation) goes with
\* Concurrent=false only: with Concurrent=true line 400 divides by it.
\* A table outside the configured list holds no rows.
Init ==
    /\ PoolIdle
    /\ BatchIdle
    /\ ManagerIdle
    /\ ValidatorIdle
    /\ AuxIdle
    /\ \E n \in 0..MaxTables, m \in Modes, b \in 0..MaxBatchSize,
          c \in BOOLEAN, v \in BOOLEAN, k \in BOOLEAN :
          /\ c => b >= 1
          /\ cfg = [Mode |-> m, Tables |-> TableList(n), BatchSize |-> b,
                    Concurrent |-> c, ValidateData |-> v, CreateBackup |-> k]
          /\ source \in {s \in [TableIds -> 0..MaxRows] :
                            \A t \in TableIds : t > n => s[t] = 0}
    /\ target = [t \in TableIds |-> <<>>]
    /\ pc = "start"
    /\ ti = 1
    /\ tableData = <<>>
    /\ bi = 0
    /\ result = [Success |-> FALSE, TotalTablesProcessed |-> 0,
                 TotalRowsMigrated |-> 0, PreValidation |-> <<>>,
                 PostValidation |-> <<>>, Errors |-> <<>>]
    /\ retErr = "nil"
    /\ fetchLog = <<>>
    /\ importLog = <<>>
    /\ tracker = NewProgressTracker

\* The fetch calls a validation phase makes, one per table, in order
ValidationFetches(client, phase, okSet) ==
    [i \in 1..Len(cfg.Tables) |->
        [client |-> client, phase |-> phase, table |-> cfg.Tables[i],
         ok |-> cfg.Tables[i] \in okSet]]

\* Step 1 with ValidateData: the whole pre-migration validation. okSet is
\* the set of tables whose source fetch succeeds. PreMigrationValidation
\* always returns a nil error, so the branch of lines 186-189 is dead.
PreValidate ==
    /\ pc = "start"
    /\ UNCHANGED notEngine
    /\ cfg.ValidateData
    /\ \E okSet \in SUBSET Range(cfg.Tables) :
        LET pre == PreMigrationValidation(cfg.Tables, okSet) IN
        /\ result' = [result EXCEPT !.PreValidation = pre]
        /\ fetchLog' = fetchLog \o ValidationFetches("source", "pre", okSet)
        /\ tracker' = NewProgressTracker
        /\ IF InvalidTables(pre) > 0
           THEN /\ retErr' = "pre-migration validation failed"
                /\ pc' = "done"
           ELSE /\ retErr' = retErr
                /\ pc' = "run"
    /\ UNCHANGED <<cfg, source, target, ti, tableData, bi, importLog>>

\* Step 1 without ValidateData
SkipPreValidate ==
    /\ pc = "start"
    /\ UNCHANGED notEngine
    /\ ~cfg.ValidateData
    /\ pc' = "run"
    /\ UNCHANGED <<cfg, source, target, ti, tableData, bi, result, retErr,
                   fetchLog, importLog, tracker>>

\* Lines 231-235: a migration error is appended to result.Errors and returned
ReturnMigrationErr(msg) ==
    /\ result' = [result EXCEPT !.Errors = Append(@, msg)]
    /\ retErr' = msg
    /\ pc' = "done"

\* Mutant of Dispatch: incremental and scheduled fall back to a full migration
DispatchFallbackToFull ==
    /\ pc = "run"
    /\ UNCHANGED notEngine
    /\ CASE cfg.Mode \in {"full", "incremental", "scheduled"} ->
              /\ pc' = IF Len(cfg.Tables) = 0 THEN "post" ELSE "fetch"
              /\ UNCHANGED <<result, retErr>>
         [] OTHER ->
              /\ retErr' = "unsupported migration mode"
              /\ pc' = "done"
              /\ UNCHANGED result
    /\ ti' = 1
    /\ UNCHANGED <<cfg, source, target, tableData, bi, fetchLog, importLog,
                   tracker>>

\* Mutant of Dispatch: the switch's default case is a full migration
DispatchDefaultFull ==
    /\ pc = "run"
    /\ UNCHANGED notEngine
    /\ CASE cfg.Mode = "incremental" ->
              ReturnMigrationErr("incremental migration not implemented")
         [] cfg.Mode = "scheduled" ->
              ReturnMigrationErr("scheduled migration not implemented")
         [] OTHER ->
              /\ pc' = IF Len(cfg.Tables) = 0 THEN "post" ELSE "fetch"
              /\ UNCHANGED <<result, retErr>>
    /\ ti' = 1
    /\ UNCHANGED <<cfg, source, target, tableData, bi, fetchLog, importLog,
                   tracker>>

\* Step 2, the switch on me.Config.Mode; executeFullMigration over an empty
\* table list returns nil at once
Dispatch ==
    /\ pc = "run"
    /\ UNCHANGED notEngine
    /\ CASE cfg.Mode = "full" ->
              /\ pc' = IF Len(cfg.Tables) = 0 THEN "post" ELSE "fetch"
              /\ UNCHANGED <<result, retErr>>
         [] cfg.Mode = "incremental" ->
              ReturnMigrationErr("incremental migration not implemented")
         [] cfg.Mode = "scheduled" ->
              ReturnMigrationErr("scheduled migration not implemented")
         [] OTHER ->
              /\ retErr' = "unsupported migration mode"
              /\ pc' = "done"
              /\ UNCHANGED result
    /\ ti' = 1
    /\ UNCHANGED <<cfg, source, target, tableData, bi, fetchLog, importLog,
                   tracker>>

\* executeFullMigration, lines 281-309: the fetch of table ti and the data
\* type validation. typesOk is ValidateDataTypes' verdict.
FetchTable ==
    /\ pc = "fetch"
    /\ UNCHANGED notEngine
    /\ LET table == cfg.Tables[ti]
           method == IF cfg.Concurrent /\ Len(cfg.Tables) > 1
                     THEN "FetchAllDataConcurrently" ELSE "FetchAllData"
           data == SourceFetch(table)
       IN \E ok \in BOOLEAN, typesOk \in BOOLEAN :
            /\ fetchLog' = Append(fetchLog,
                    [client |-> "source", phase |-> method, table |-> table,
                     ok |-> ok])
            /\ IF ~ok
               THEN /\ tracker' = [tracker EXCEPT !.errors = @ + 1]
                    /\ ReturnMigrationErr("failed to fetch data")
                    /\ UNCHANGED tableData
               ELSE IF cfg.ValidateData /\ Len(data) > 0 /\ ~typesOk
               THEN /\ tracker' = [tracker EXCEPT !.errors = @ + 1]
                    /\ ReturnMigrationErr("data type validation failed")
                    /\ UNCHANGED tableData
               ELSE /\ tableData' = data
                    /\ pc' = "import"
                    /\ UNCHANGED <<tracker, result, retErr>>
    /\ bi' = 0
    /\ UNCHANGED <<cfg, source, target, ti, importLog>>

\* Mutant of UseBatchPath: the size of the record set alone decides
UseBatchPathBySize == Len(tableData) > cfg.BatchSize

\* Line 312: the batched import path is taken
UseBatchPath == cfg.Concurrent /\ Len(tableData) > cfg.BatchSize

\* Mutant of CompleteTable: TotalRowsMigrated is assigned, not accumulated
CompleteTableAssign(trk) ==
    /\ tracker' = [trk EXCEPT !.processedTables = @ + 1]
    /\ result' = [result EXCEPT !.TotalRowsMigrated = Len(tableData)]
    /\ IF ti = Len(cfg.Tables)
       THEN pc' = "post" /\ ti' = ti
       ELSE pc' = "fetch" /\ ti' = ti + 1
    /\ UNCHANGED retErr

\* Lines 333-338: the table is complete; on to the next one, or out of the loop
CompleteTable(trk) ==
    /\ tracker' = [trk EXCEPT !.processedTables = @ + 1]
    /\ result' = [result EXCEPT !.TotalRowsMigrated = @ + Len(tableData)]
    /\ IF ti = Len(cfg.Tables)
       THEN pc' = "post" /\ ti' = ti
       ELSE pc' = "fetch" /\ ti' = ti + 1
    /\ UNCHANGED retErr

\* Mutant of FailImport: the rows of the failed table are counted as migrated
FailImportCounting(trk) ==
    /\ tracker' = [trk EXCEPT !.errors = @ + 1]
    /\ result' = [result EXCEPT !.Errors = Append(@, "failed to import data"),
                                !.TotalRowsMigrated = @ + Len(tableData)]
    /\ retErr' = "failed to import data"
    /\ pc' = "done"
    /\ UNCHANGED ti

\* Mutant of FailImport: the error is recorded and the loop goes on with the
\* next table
FailImportContinue(trk) ==
    /\ tracker' = [trk EXCEPT !.errors = @ + 1]
    /\ result' = [result EXCEPT !.Errors = Append(@, "failed to import data")]
    /\ IF ti = Len(cfg.Tables)
       THEN pc' = "post" /\ ti' = ti
       ELSE pc' = "fetch" /\ ti' = ti + 1
    /\ UNCHANGED retErr

\* Lines 326-331: the import of the table failed
FailImport(trk) ==
    /\ tracker' = [trk EXCEPT !.errors = @ + 1]
    /\ ReturnMigrationErr("failed to import data")
    /\ UNCHANGED ti

\* Lines 320-338: one direct ImportData call with the whole table; line 323
\* updates the progress before the error is looked at
ImportTable ==
    /\ pc = "import"
    /\ UNCHANGED notEngine
    /\ ~UseBatchPath
    /\ \E ok \in BOOLEAN :
        LET trk == [tracker EXCEPT !.processedRows = @ + Len(tableData)] IN
        /\ importLog' = Append(importLog,
                [table |-> cfg.Tables[ti], data |-> tableData, ok |-> ok])
        /\ IF ok
           THEN /\ target' = ImportInto(target, tableData)
                /\ CompleteTable(trk)
           ELSE /\ target' = target
                /\ FailImport(trk)
    /\ UNCHANGED <<cfg, source, tableData, bi, fetchLog>>

\* Mutant of NextBatchStart: the loop does not move on
NextBatchStartStuck(i, size) == i

\* importDataWithBatchTracking, line 402: the loop's post statement
NextBatchStart(i, size) == i + 1

\* importDataWithBatchTracking: one iteration of its loop (one ImportData
\* call with data[i:end]), and after the last one lines 326-338
ImportBatch ==
    /\ pc = "import"
    /\ UNCHANGED notEngine
    /\ UseBatchPath
    /\ bi < Len(tableData)
    /\ LET end == Min(bi + cfg.BatchSize, Len(tableData))
           batch == SubSeq(tableData, bi + 1, end)
           next == NextBatchStart(bi, cfg.BatchSize)
       IN \E ok \in BOOLEAN :
            /\ importLog' = Append(importLog,
                    [table |-> cfg.Tables[ti], data |-> batch, ok |-> ok])
            /\ IF ~ok
               THEN /\ target' = target
                    /\ FailImport(tracker)
                    /\ bi' = bi
               ELSE LET trk == [tracker EXCEPT !.processedRows = @ + Len(batch)] IN
                    /\ target' = ImportInto(target, batch)
                    /\ bi' = next
                    /\ IF next < Len(tableData)
                       THEN /\ tracker' = trk
                            /\ UNCHANGED <<pc, ti, result, retErr>>
                       ELSE CompleteTable(trk)
    /\ UNCHANGED <<cfg, source, tableData, fetchLog>>

\* Mutant of Finalized: Success is left as it was
FinalizedNoSuccess(res) ==
    [res EXCEPT !.TotalTablesProcessed = Len(cfg.Tables)]

\* Step 4, lines 260-268
Finalized(res) ==
    [res EXCEPT !.Success = TRUE, !.TotalTablesProcessed = Len(cfg.Tables)]

\* Step 3 with ValidateData: the whole post-migration validation, then step 4.
\* okSet is the set of tables whose target fetch succeeds, keys the field each
\* sample row's iteration yields first. PostMigationValidation always returns
\* a nil error, so the branch of lines 241-245 is dead.
PostValidate ==
    /\ pc = "post"
    /\ UNCHANGED notEngine
    /\ cfg.ValidateData
    /\ \E okSet \in SUBSET Range(cfg.Tables), keys \in [1..CheckRows -> DataFields] :
        LET post == [i \in 1..Len(cfg.Tables) |->
                        PostResult(cfg.Tables[i], cfg.Tables[i] \in okSet,
                                   target[cfg.Tables[i]], result.PreValidation,
                                   keys)]
        IN
        /\ fetchLog' = fetchLog \o ValidationFetches("target", "post", okSet)
        /\ IF InvalidTables(post) > 0
           THEN /\ result' = [result EXCEPT !.PostValidation = post,
                                            !.Success = FALSE]
                /\ retErr' = "migration validation failed"
           ELSE /\ result' = Finalized([result EXCEPT !.PostValidation = post])
                /\ retErr' = "nil"
    /\ pc' = "done"
    /\ UNCHANGED <<cfg, source, target, ti, tableData, bi, importLog, tracker>>

\* Step 3 skipped, then step 4
Finalize ==
    /\ pc = "post"
    /\ UNCHANGED notEngine
    /\ ~cfg.ValidateData
    /\ result' = Finalized(result)
    /\ retErr' = "nil"
    /\ pc' = "done"
    /\ UNCHANGED <<cfg, source, target, ti, tableData, bi, fetchLog,
                   importLog, tracker>>

Next ==
    \/ PreValidate
    \/ SkipPreValidate
    \/ Dispatch
    \/ FetchTable
    \/ ImportTable
    \/ ImportBatch
    \/ PostValidate
    \/ Finalize

Spec == Init /\ [][Next]_vars

\* ================================================================ claims
\* ------------------------------------------------------------- helpers
RECURSIVE SumRows(_)
SumRows(tables) ==
    IF tables = <<>> THEN 0 ELSE source[Head(tables)] + SumRows(Tail(tables))

RECURSIVE Flatten(_)
Flatten(calls) ==
    IF calls = <<>> THEN <<>> ELSE Head(calls).batch \o Flatten(Tail(calls))

\* A fetch made by executeFullMigration (not by a validation phase)
MigrationFetch(e) == e.client = "source" /\ e.phase # "pre"

PreFetchFailed ==
    \E k \in 1..Len(fetchLog) : fetchLog[k].phase = "pre" /\ ~fetchLog[k].ok

AllCallsOk ==
    /\ \A k \in 1..Len(fetchLog) : fetchLog[k].ok
    /\ \A k \in 1..Len(importLog) : importLog[k].ok

Returned == pc = "done"

\* The fetch or the import of table t failed during the migration proper
TableFailed(t) ==
    \/ \E k \in 1..Len(fetchLog) :
          MigrationFetch(fetchLog[k]) /\ fetchLog[k].table = t /\ ~fetchLog[k].ok
    \/ \E k \in 1..Len(importLog) : importLog[k].table = t /\ ~importLog[k].ok

\* No call of the migration proper concerns table t
TableUntouched(t) ==
    /\ \A k \in 1..Len(fetchLog) :
          MigrationFetch(fetchLog[k]) => fetchLog[k].table # t
    /\ \A k \in 1..Len(importLog) : importLog[k].table # t

Occurrences(seq, x) == Cardinality({k \in 1..Len(seq) : seq[k] = x})

\* C1 (as claimed): after a successful full-mode run the target holds, for
\* every configured table, exactly the records fetched from the source,
\* each one once, also on the batched import path.
C1_ImportedExactlyOnce ==
    (Returned /\ cfg.Mode = "full" /\ retErr = "nil")
        => \A t \in Range(cfg.Tables) : target[t] = SourceFetch(t)

\* C2: with pre-migration validation enabled and a table whose pre-phase
\* source fetch failed, ExecuteMigration has returned an error and no
\* ImportData call was made on the target at any point of the run.
C2_NoImportAfterFailedPreValidation ==
    (cfg.ValidateData /\ PreFetchFailed)
        => /\ Returned
           /\ retErr # "nil"
           /\ importLog = <<>>
           /\ \A t \in TableIds : target[t] = <<>>

C2_Witness ==
    /\ Returned
    /\ cfg.ValidateData
    /\ Len(cfg.Tables) = 2
    /\ PreFetchFailed
    /\ \E i \in 1..Len(result.PreValidation) : result.PreValidation[i].IsValid
    /\ \E i \in 1..Len(result.PreValidation) : ~result.PreValidation[i].IsValid

\* C3: with N >= 1 distinct tables and 1 <= W <= N workers, no table is ever
\* reported twice, and when ProcessTablesWithWorkerPool returns it has
\* collected exactly N results, one per submitted table, whatever the
\* interleaving of the workers.
C3_OneResultPerTable ==
    (Len(wpTables) >= 1 /\ numWorkers <= Len(wpTables))
        => /\ \A t \in Range(wpTables) : Occurrences(collected, t) <= 1
           /\ Range(collected) \subseteq Range(wpTables)
           /\ wpPc = "returned"
                => /\ Len(collected) = Len(wpTables)
                   /\ \A t \in Range(wpTables) : Occurrences(collected, t) = 1

C3_Witness ==
    /\ wpPc = "returned"
    /\ Len(wpTables) = 3
    /\ numWorkers = 2
    /\ Len(collected) = 3
    /\ collected # wpTables

\* C4: when at least one table's fetch fails, all N results are still
\* collected (the other tables are fetched and their rows gathered), and
\* the call returns a nil record set and a non-nil error.
C4_AllOrNothing ==
    (wpPc = "returned" /\ Len(wpTables) >= 1 /\ failTables # {})
        => /\ Len(collected) = Len(wpTables)
           /\ Range(collected) = Range(wpTables)
           /\ Len(errors) = Cardinality(failTables)
           /\ \A t \in Range(wpTables) \ failTables :
                 \E j \in 1..Len(allResults) : allResults[j]._source_table = t
           /\ wpRet.data = <<>>
           /\ wpRet.err # "nil"

C4_Witness ==
    /\ wpPc = "returned"
    /\ Len(wpTables) = 3
    /\ Cardinality(failTables) = 1
    /\ allResults # <<>>
    /\ wpRet.err # "nil"

\* C5: every processFunc call receives at most B records; for L >= 1 and
\* B >= 1, when no call errors, ProcessInBatches makes exactly ceil(L/B)
\* calls and the last one receives L mod B records (B when B divides L).
C5_BatchCount ==
    /\ \A k \in 1..Len(bpCalls) : Len(bpCalls[k].batch) <= batchSize
    /\ (bpPc = "returned" /\ Len(bpData) >= 1 /\ bpRet = "nil")
        => /\ Len(bpCalls) = (Len(bpData) + batchSize - 1) \div batchSize
           /\ Len(bpCalls[Len(bpCalls)].batch) =
                IF Len(bpData) % batchSize = 0 THEN batchSize
                ELSE Len(bpData) % batchSize

C5_Witness ==
    /\ bpPc = "returned"
    /\ bpRet = "nil"
    /\ Len(bpData) = 5
    /\ batchSize = 2
    /\ Len(bpCalls) = 3
    /\ Len(bpCalls[3].batch) = 1

\* C6: the batches passed to processFunc are non-empty, contiguous and in
\* increasing index order (their concatenation is a prefix of data); only
\* the last call made may have failed, and once a call has failed
\* ProcessInBatches has returned an error, so no later batch is passed.
C6_InOrderStopAtError ==
    /\ Flatten(bpCalls) = SubSeq(bpData, 1, Len(Flatten(bpCalls)))
    /\ \A k \in 1..Len(bpCalls) : bpCalls[k].batch # <<>>
    /\ \A k \in 1..Len(bpCalls) :
          ~bpCalls[k].ok
            => /\ k = Len(bpCalls)
               /\ bpPc = "returned"
               /\ bpRet # "nil"
    /\ (bpPc = "returned" /\ bpRet = "nil" /\ bpData # <<>>)
          => Flatten(bpCalls) = bpData

C6_Witness ==
    /\ bpPc = "returned"
    /\ bpRet # "nil"
    /\ Len(bpCalls) = 2
    /\ Len(bpData) > 2 * batchSize
    /\ batchSize = 2

\* C7: a full-mode run with ValidateData=false and Concurrent=false whose
\* fetches and imports all succeed returns no error, TotalRowsMigrated equal
\* to the sum of the rows fetched over the configured tables, and
\* TotalTablesProcessed equal to len(Tables).
C7_SequentialTotals ==
    (Returned /\ cfg.Mode = "full" /\ ~cfg.ValidateData /\ ~cfg.Concurrent
        /\ AllCallsOk)
        => /\ retErr = "nil"
           /\ result.TotalRowsMigrated = SumRows(cfg.Tables)
           /\ result.TotalTablesProcessed = Len(cfg.Tables)

C7_Witness ==
    /\ Returned
    /\ cfg.Mode = "full"
    /\ ~cfg.ValidateData
    /\ ~cfg.Concurrent
    /\ AllCallsOk
    /\ Len(cfg.Tables) = 2
    /\ source[1] = 3
    /\ source[2] = 4
    /\ result.TotalRowsMigrated = 7

\* C8 (as claimed): whenever ExecuteMigration returns a non-nil error,
\* result.Errors is non-empty and holds a message for that failure.
C8_ErrorRecorded ==
    (Returned /\ retErr # "nil")
        => /\ result.Errors # <<>>
           /\ retErr \in Range(result.Errors)

\* C9: on every return path the result is there and result.Success is true
\* exactly when the returned error is nil.
C9_SuccessIffNoError ==
    /\ result.Success \in BOOLEAN
    /\ Returned => (result.Success <=> retErr = "nil")

C9_Witness ==
    /\ Returned
    /\ retErr = "migration validation failed"
    /\ ~result.Success
    /\ result.TotalRowsMigrated > 0

\* C10: in full mode, once the fetch or the import of table i has failed,
\* ExecuteMigration has returned that error with its message appended to
\* result.Errors, and no table after i was fetched or imported (nor was the
\* post-migration validation run).
C10_AbortOnTableFailure ==
    \A i \in 1..Len(cfg.Tables) :
        (cfg.Mode = "full" /\ TableFailed(cfg.Tables[i]))
            => /\ Returned
               /\ retErr # "nil"
               /\ result.Errors = <<retErr>>
               /\ \A j \in (i + 1)..Len(cfg.Tables) : TableUntouched(cfg.Tables[j])
               /\ \A k \in 1..Len(fetchLog) : fetchLog[k].phase # "post"

C10_Witness ==
    /\ Returned
    /\ Len(cfg.Tables) = 2
    /\ source[2] > 0
    /\ \E k \in 1..Len(importLog) :
          importLog[k].table = cfg.Tables[1] /\ ~importLog[k].ok

\* ------------------------------------------------- claims C11 to C16
\* The rows of table t that the successful ImportData calls of log passed
RECURSIVE ImportedOf(_, _)
ImportedOf(log, t) ==
    IF log = <<>> THEN <<>>
    ELSE (IF Head(log).ok
          THEN SelectSeq(Head(log).data, LAMBDA r : r._source_table = t)
          ELSE <<>>) \o ImportedOf(Tail(log), t)

\* The ImportData calls made for table t
CallsFor(t) == SelectSeq(importLog, LAMBDA e : e.table = t)

ImportFailed(t) == \E k \in 1..Len(importLog) : importLog[k].table = t /\ ~importLog[k].ok

NotImplemented ==
    [m \in {"incremental", "scheduled"} |->
        IF m = "incremental" THEN "incremental migration not implemented"
        ELSE "scheduled migration not implemented"]

PostInvalid == \E i \in 1..Len(result.PostValidation) : ~result.PostValidation[i].IsValid

\* C11 (as claimed): when ImportData fails for a table, ExecuteMigration
\* returns a non-nil error with Success=false, the target holds no imported
\* rows of that table, and TotalRowsMigrated does not include its rows.
C11_NoRowsOfFailedTable ==
    \A i \in 1..Len(cfg.Tables) :
        ImportFailed(cfg.Tables[i])
            => /\ Returned
               /\ retErr # "nil"
               /\ ~result.Success
               /\ target[cfg.Tables[i]] = <<>>
               /\ result.TotalRowsMigrated = SumRows(SubSeq(cfg.Tables, 1, i - 1))

\* C11 (amended): when ImportData fails for a table, ExecuteMigration returns
\* a non-nil error with Success=false and TotalRowsMigrated counts only the
\* tables before it; the target holds exactly the rows of the calls that
\* succeeded: none of that table when its first call failed (always so on
\* the direct path), the earlier batches of the table on the batched path.
C11_FailedCallImportsNothing ==
    \A i \in 1..Len(cfg.Tables) :
        ImportFailed(cfg.Tables[i])
            => /\ Returned
               /\ retErr # "nil"
               /\ ~result.Success
               /\ target[cfg.Tables[i]] = ImportedOf(importLog, cfg.Tables[i])
               /\ ~CallsFor(cfg.Tables[i])[1].ok => target[cfg.Tables[i]] = <<>>
               /\ Len(CallsFor(cfg.Tables[i])) > 1 => cfg.Concurrent
               /\ result.TotalRowsMigrated = SumRows(SubSeq(cfg.Tables, 1, i - 1))

C11_Witness ==
    /\ Returned
    /\ Len(cfg.Tables) = 2
    /\ ImportFailed(cfg.Tables[2])
    /\ Len(CallsFor(cfg.Tables[2])) = 2
    /\ target[cfg.Tables[2]] # <<>>
    /\ result.TotalRowsMigrated = source[cfg.Tables[1]]
    /\ result.TotalRowsMigrated > 0

\* C12 (as claimed): with mode incremental or scheduled ExecuteMigration
\* returns a 'not implemented' error with Success=false and never calls
\* ImportData.
C12_NotImplementedError ==
    (Returned /\ cfg.Mode \in {"incremental", "scheduled"})
        => /\ retErr = NotImplemented[cfg.Mode]
           /\ ~result.Success
           /\ importLog = <<>>

\* C12 (amended): with mode incremental or scheduled ExecuteMigration never
\* fetches for migration nor calls ImportData, and returns a non-nil error
\* with Success=false: the 'not implemented' error, unless the pre-migration
\* validation failed first, whose error is then the one returned.
C12_NoFallbackToFull ==
    cfg.Mode \in {"incremental", "scheduled"}
        => /\ importLog = <<>>
           /\ \A t \in TableIds : target[t] = <<>>
           /\ \A k \in 1..Len(fetchLog) : ~MigrationFetch(fetchLog[k])
           /\ Returned
                => /\ ~result.Success
                   /\ retErr = IF cfg.ValidateData /\ PreFetchFailed
                               THEN "pre-migration validation failed"
                               ELSE NotImplemented[cfg.Mode]

C12_Witness ==
    /\ Returned
    /\ cfg.Mode = "incremental"
    /\ retErr = "incremental migration not implemented"
    /\ cfg.ValidateData
    /\ Len(result.PreValidation) = 2
    /\ source[1] > 0

\* C13: with a mode that is not full, incremental or scheduled,
\* ExecuteMigration returns a non-nil error, and no fetch for migration and
\* no ImportData call is made at any point of the run.
C13_UnknownModeRejected ==
    cfg.Mode \notin {"full", "incremental", "scheduled"}
        => /\ importLog = <<>>
           /\ \A t \in TableIds : target[t] = <<>>
           /\ \A k \in 1..Len(fetchLog) : ~MigrationFetch(fetchLog[k])
           /\ Returned => retErr # "nil"

C13_Witness ==
    /\ Returned
    /\ cfg.Mode = "invalid"
    /\ retErr = "unsupported migration mode"
    /\ Len(cfg.Tables) = 2
    /\ source[1] > 0

\* C14 (as claimed): ExecuteMigration with an empty table list returns a
\* non-nil error and Success=false.
C14_EmptyTableListRejected ==
    (Returned /\ Len(cfg.Tables) = 0)
        => /\ retErr # "nil"
           /\ ~result.Success

C16_SnapshotBeforeImport ==
    (cfg.CreateBackup /\ (importLog # <<>> \/ (Returned /\ retErr = "nil")))
        => \E id \in 0..MaxTime : Exists(id)

\* ------------------------------------------- claims on the RollBackManager
\* The step is a call of op (a call that changes neither the directory nor
\* what the last call returned is a stuttering step)
CallStep(op) ==
    /\ rmLast'.op = op
    /\ rmLast' # rmLast \/ rmFiles' # rmFiles

Terminal(snapshot) == snapshot.Status \in {"completed", "rolled_back"}

\* Older than maxAge at the time rmNow
OlderThan(snapshot, maxAge) == snapshot.Timestamp < rmNow - maxAge

\* C17: RollBackMigration on an existing snapshot that is not rolled back
\* returns nil and persists the status rolled_back, changing nothing else;
\* RollBackMigration on a snapshot that is rolled back (so the second of two
\* calls on one ID) fails with 'already been rolled back' and leaves the
\* directory as it was.
C17_RollbackLatch ==
    [][\A id \in 0..MaxTime :
        (CallStep("RollBackMigration") /\ rmLast'.id = id /\ Exists(id))
            => IF rmFiles[id].Status # "rolled_back"
               THEN /\ rmLast'.ret = "nil"
                    /\ rmFiles' = [rmFiles EXCEPT ![id].Status = "rolled_back"]
               ELSE /\ rmLast'.ret = "has already been rolled back"
                    /\ rmFiles' = rmFiles]_vars

C17_Witness ==
    /\ rmLast.op = "RollBackMigration"
    /\ rmLast.ret = "has already been rolled back"
    /\ Exists(rmLast.id)
    /\ rmFiles[rmLast.id].Status = "rolled_back"

\* C18 (as claimed): once the persisted status of a snapshot is rolled_back,
\* no RollBackMigration, MarkSnapshotCompleted, MarkSnapshotFailed or
\* UpdateSnapshotWithMigratedData changes it to another value.
C18_RolledBackIsFinal ==
    [][\A id \in 0..MaxTime :
        (/\ Exists(id)
         /\ rmFiles[id].Status = "rolled_back"
         /\ rmLast'.op \in {"RollBackMigration", "MarkSnapshotCompleted",
                            "MarkSnapshotFailed", "UpdateSnapshotWithMigratedData"})
            => rmFiles'[id].Status = "rolled_back"]_vars

\* C19 (as claimed): CleanupOldSnapshots(maxAge) removes every snapshot file
\* whose timestamp is older than maxAge and whose status is completed or
\* rolled_back.
C19_CleanupRemovesOldTerminal ==
    [][CallStep("CleanupOldSnapshots")
        => \A id \in 0..MaxTime :
              (Exists(id) /\ Terminal(rmFiles[id])
                    /\ OlderThan(rmFiles[id], rmLast'.maxDuration))
                => rmFiles'[id] = NoFile]_vars

\* C20: CleanupOldSnapshots(maxAge) removes or changes a snapshot file only
\* when its status is neither in_progress nor failed and its timestamp is
\* older than maxAge; every other file of the directory is left as it was,
\* whatever snapshots the directory holds.
C20_CleanupKeepsTheRest ==
    [][\A id \in 0..MaxTime :
        (Exists(id) /\ rmFiles'[id] # rmFiles[id] /\ rmLast'.op = "CleanupOldSnapshots")
            => /\ rmFiles[id].Status \notin {"in_progress", "failed"}
               /\ OlderThan(rmFiles[id], rmLast'.maxDuration)]_vars

C20_Witness ==
    /\ rmLast.op = "CleanupOldSnapshots"
    /\ rmNow = MaxTime
    /\ rmLast.maxDuration = 0
    /\ Exists(0) /\ rmFiles[0].Status = "failed"
    /\ Exists(MaxTime) /\ rmFiles[MaxTime].Status = "completed"

\* C21 (as claimed): every CreateSnapshot call produces an ID that no
\* snapshot of the directory has, so it never overwrites the file of an
\* earlier snapshot, also within the same second.
C21_FreshSnapshotId ==
    [][CallStep("CreateSnapshot") => ~Exists(rmLast'.id)]_vars

\* C22: RollBackMigration on an existing snapshot that is not rolled back
\* leaves the target store as it was, for the tables that existed before
\* and for those that did not; the one thing it changes is the status of
\* that snapshot's file, which becomes rolled_back.
C22_RollbackLeavesTarget ==
    [][\A id \in 0..MaxTime :
        (/\ CallStep("RollBackMigration")
         /\ rmLast'.id = id
         /\ Exists(id)
         /\ rmFiles[id].Status # "rolled_back")
            => /\ rmTarget' = rmTarget
               /\ rmMissing' = rmMissing
               /\ rmNow' = rmNow
               /\ \A other \in 0..MaxTime :
                     rmFiles'[other] =
                        IF other = id
                        THEN [rmFiles[id] EXCEPT !.Status = "rolled_back"]
                        ELSE rmFiles[other]]_vars

C22_Witness ==
    /\ rmLast.op = "RollBackMigration"
    /\ rmLast.ret = "nil"
    /\ Exists(rmLast.id)
    /\ rmFiles[rmLast.id].Status = "rolled_back"
    /\ rmFiles[rmLast.id].PreMigrationState[1].ExistedBefore
    /\ ~rmFiles[rmLast.id].PreMigrationState[2].ExistedBefore
    /\ rmFiles[rmLast.id].MigratedData[1] # <<>>
    /\ rmTarget[1] > 0
    /\ rmTarget[2] > 0

\* ---------------------------------------------- claims on the validator
\* C23: PreMigrationValidation returns one result per requested table, in
\* request order (the model's call has no error outcome: the code returns
\* nil in every path); the result of a table is invalid exactly when its
\* fetch failed, an invalid result carries a message, a valid one the row
\* count of the source table; and every requested table is fetched, in
\* order, whichever of them fail.
C23_OneResultPerTable ==
    valPc \in {"again", "post", "done"} =>
        /\ Len(valPre) = Len(valTables)
        /\ Len(valFetches) >= Len(valTables)
        /\ \A i \in 1..Len(valTables) :
            /\ valPre[i].TableName = valTables[i]
            /\ valPre[i].IsValid <=> valTables[i] \notin valFailS
            /\ ~valPre[i].IsValid => valPre[i].ErrorMessage # ""
            /\ valPre[i].IsValid => valPre[i].RowCount = source[valTables[i]]
            /\ valFetches[i].client = "source"
            /\ valFetches[i].table = valTables[i]

\* The first of two tables fails, the second is validated with its rows
C23_Witness ==
    /\ valPc = "again"
    /\ Len(valTables) = 2
    /\ valFailS = {valTables[1]}
    /\ ~valPre[1].IsValid
    /\ valPre[2].IsValid
    /\ valPre[2].RowCount > 0

\* C24: when the target fetch of a table succeeds and returns a number of
\* rows other than the RowCount of the table's pre-phase result,
\* PostMigationValidation reports the table invalid with a message that
\* names the pre-phase count as expected and the count of the target.
C24_RowCountMismatchReported ==
    \A i \in 1..Len(valPost) :
        LET table == valTables[i]
            expected == PreResultOf(valPre, table).RowCount
            got == Len(target[table])
        IN (table \notin valFailT /\ got # expected) =>
                /\ ~valPost[i].IsValid
                /\ valPost[i].ErrorMessage # ""
                /\ valPost[i].ErrorMessage =
                       "Row count mismatch, expected source: "
                           \o ToString(expected)
                           \o ", got target: " \o ToString(got)

\* A target with one row more than the source had in the pre-phase
C24_Witness ==
    /\ valPc = "done"
    /\ \E i \in 1..Len(valPost) :
        /\ valTables[i] \notin valFailS \cup valFailT
        /\ source[valTables[i]] > 0
        /\ Len(target[valTables[i]]) = source[valTables[i]] + 1
        /\ ~valPost[i].IsValid

\* C25: a table whose target holds the rows of the source, in the same
\* order, and whose fetches all succeed is reported valid by
\* PostMigationValidation, with the number of rows as RowCount, whichever
\* fields the sample comparison takes as primary keys.
C25_IdenticalTablesValid ==
    \A i \in 1..Len(valPost) :
        LET table == valTables[i]
        IN (/\ table \notin valFailS \cup valFailT
            /\ target[table] = SourceFetch(table)) =>
                /\ valPost[i].IsValid
                /\ valPost[i].RowCount = source[table]

\* More identical rows than the sample comparison looks at
C25_Witness ==
    /\ valPc = "done"
    /\ valFailS = {}
    /\ valFailT = {}
    /\ source[valTables[1]] > CheckRows
    /\ target[valTables[1]] = SourceFetch(valTables[1])
    /\ valPost[1].IsValid
    /\ valPost[1].RowCount = source[valTables[1]]

\* C26: when source and target hold the same number of rows and, within
\* the first 5, a row of the target differs from the source row at the same
\* index in a non-metadata field, the sample comparison fails (the table is
\* reported invalid), whichever field the iteration yields first.
C26_SampleDifferenceDetected ==
    \A i \in 1..Len(valPost) :
        LET table == valTables[i]
            sourceData == SourceFetch(table)
            targetData == target[table]
        IN (/\ table \notin valFailS \cup valFailT
            /\ Len(targetData) = Len(sourceData)
            /\ \E j \in 1..Min(CheckRows, Len(sourceData)), f \in DataFields :
                    sourceData[j][f] # targetData[j][f]) =>
                ~valPost[i].IsValid

C31_RowsTaggedWithOrigin ==
    (wpPc = "returned" /\ wpRet.err = "nil") =>
        /\ \A j \in 1..Len(wpRet.data) :
                wpRet.data[j]._source_table = wpRet.data[j].id[1]
        /\ \A t \in Range(wpTables) :
                Cardinality({j \in 1..Len(wpRet.data) :
                                wpRet.data[j]._source_table = t})
                    = PoolRowCount(t)

\* Results collected in another order than the tables were submitted
C31_Witness ==
    /\ wpPc = "returned"
    /\ wpRet.err = "nil"
    /\ Len(wpTables) >= 2
    /\ collected # wpTables
    /\ Len(wpRet.data) > Len(wpTables)

\* The workers that are inside fetchTableData
Fetching == {w \in 1..MaxWorkers : wState[w] = "fetching"}

\* C34: at no moment are more than numWorkers table fetches in progress,
\* however many tables were submitted.
C34_AtMostNumWorkersFetch == Cardinality(Fetching) <= numWorkers

\* One worker of a pool that could hold more is fetching while the job queue
\* is full of tables that wait
C34_Witness ==
    /\ numWorkers = 1
    /\ Cardinality(Fetching) = numWorkers
    /\ Len(wpTables) > numWorkers
    /\ Len(jobs) = QueueCap(numWorkers)

\* ------------------------------------ claims on the worker pool, liveness
\* The call is over and so is every goroutine it started: the submission
\* goroutine has enqueued every table and closed both channels, and every
\* worker has left its loop
PoolQuiescent ==
    /\ wpPc = "returned"
    /\ Len(wpTables) > 0 =>
        /\ subPc = "done"
        /\ subI = Len(wpTables) + 1
        /\ jobsClosed
        /\ resultsClosed
        /\ \A w \in 1..numWorkers : wState[w] = "exited"

\* C28: for every number of workers and every list of tables, also one
\* longer than the job queue, ProcessTablesWithWorkerPool comes to an end:
\* the results channel is closed only when every worker has exited, no send
\* hits a closed channel, and eventually the caller has returned with the
\* submission goroutine and every worker finished.
C28_PoolTerminates ==
    /\ [](resultsClosed => \A w \in 1..numWorkers : wState[w] = "exited")
    /\ [](~wpPanic)
    /\ <>[]PoolQuiescent

\* Three tables on one worker, whose job queue holds two
C28_Witness ==
    /\ PoolQuiescent
    /\ numWorkers = 1
    /\ Len(wpTables) > QueueCap(numWorkers)
    /\ colI = Len(wpTables)

\* ------------------------------------------- claims on the import path
\* A step in which the engine calls TargetClient.ImportData
ImportCall == Len(importLog') = Len(importLog) + 1

\* The records handed to the ImportData call of the step
Imported == importLog'[Len(importLog')].data

\* C29 as stated: in full mode the call carries a batch of at most BatchSize
\* records when the fetched set is larger than BatchSize, and the whole
\* fetched set in one call otherwise, whatever Concurrent is.
C29_BatchedBySizeAlone ==
    [][(ImportCall /\ cfg.Mode = "full") =>
          IF Len(tableData) > cfg.BatchSize
          THEN Len(Imported) <= cfg.BatchSize
          ELSE Imported = tableData /\ pc' # "import"]_vars

\* C29 amended: the call carries a batch of at most BatchSize records when
\* Concurrent is set and the fetched set is larger than BatchSize; in every
\* other case, also with a set larger than BatchSize while Concurrent is
\* off, the table is imported by one call with the whole fetched set.
C29_BatchedOnlyWhenConcurrent ==
    [][(ImportCall /\ cfg.Mode = "full") =>
          IF cfg.Concurrent /\ Len(tableData) > cfg.BatchSize
          THEN Len(Imported) <= cfg.BatchSize
          ELSE Imported = tableData /\ pc' # "import"]_vars

\* Concurrent is off and one call has carried more than BatchSize records
C29_Witness ==
    /\ cfg.Mode = "full"
    /\ ~cfg.Concurrent
    /\ cfg.BatchSize >= 1
    /\ \E k \in 1..Len(importLog) :
          /\ Len(importLog[k].data) > cfg.BatchSize
          /\ importLog[k].ok

\* The position of a table in the configured list
PositionOf(t) == CHOOSE i \in 1..Len(cfg.Tables) : cfg.Tables[i] = t

\* Each ImportData call but the last has returned without error, and the
\* call after it is for a later batch of the same table or for a table
\* later in the configured order
ImportsInOrder ==
    \A k \in 1..(Len(importLog) - 1) :
        LET a == importLog[k]
            b == importLog[k + 1]
        IN /\ a.ok
           /\ \/ PositionOf(a.table) < PositionOf(b.table)
              \/ /\ a.table = b.table
                 /\ a.data # <<>>
                 /\ b.data # <<>>
                 /\ a.data[1].id < b.data[1].id

\* C30: the engine makes its ImportData calls one at a time, also with
\* Concurrent set and several tables: a step makes at most one call and
\* keeps the calls made before it, and the calls are ordered, the batches
\* of a table one after another and the tables in configured order.
C30_OneImportAtATime ==
    /\ []ImportsInOrder
    /\ [][/\ Len(importLog') <= Len(importLog) + 1
          /\ SubSeq(importLog', 1, Len(importLog)) = importLog]_vars

\* Two tables migrated with Concurrent set, the first one in several batches
C30_Witness ==
    /\ pc = "done"
    /\ cfg.Concurrent
    /\ Len(cfg.Tables) = 2
    /\ Cardinality({k \in 1..Len(importLog) :
                        importLog[k].table = cfg.Tables[1]}) >= 2
    /\ \E k \in 1..Len(importLog) : importLog[k].table = cfg.Tables[2]
    /\ \A k \in 1..Len(importLog) : importLog[k].ok

\* -------------------------------- claims on the RollBackManager, updates
\* The operations that work on an existing snapshot
SnapshotOps ==
    {"UpdateSnapshotWithMigratedData", "MarkSnapshotCompleted",
     "MarkSnapshotFailed", "RollBackMigration"}

\* C32: a successful UpdateSnapshotWithMigratedData appends the given
\* records of each table, without their _source_table key, after the records
\* the snapshot already stores for the table, and leaves the snapshot's
\* status unchanged; and no update, mark or rollback call changes the
\* pre-migration state of any snapshot.
C32_UpdateAppendsAndKeeps ==
    [][/\ (CallStep("UpdateSnapshotWithMigratedData") /\ rmLast'.ret = "nil") =>
            LET old == rmFiles[rmLast'.id]
                new == rmFiles'[rmLast'.id]
            IN /\ \E data \in UpdateInputs :
                    \A t \in Range(RMTables) :
                        new.MigratedData[t] =
                            old.MigratedData[t] \o StrippedFor(data, t)
               /\ new.Status = old.Status
               /\ \A other \in 0..MaxTime :
                    other # rmLast'.id => rmFiles'[other] = rmFiles[other]
       /\ (\E op \in SnapshotOps : CallStep(op)) =>
            \A id \in 0..MaxTime :
                Exists(id) =>
                    /\ rmFiles'[id] # NoFile
                    /\ rmFiles'[id].PreMigrationState =
                           rmFiles[id].PreMigrationState]_vars

\* A second update has added a record to a table that already had one, on a
\* snapshot taken while the target lacked a table that it has by now
C32_Witness ==
    /\ rmLast.op = "UpdateSnapshotWithMigratedData"
    /\ rmLast.ret = "nil"
    /\ Len(rmFiles[rmLast.id].MigratedData[1]) = 2
    /\ ~rmFiles[rmLast.id].PreMigrationState[2].ExistedBefore
    /\ rmMissing = {}

\* ------------------------------------------ claims on the ProcessTracker
\* No writer is inside a call
WritersAtRest == \A w \in PTWriters : ptTask[w].pc = "idle"

\* C33: whenever no writer is inside a call, and so once all writers have
\* finished, the counters hold what the calls made add up to: processedRows
\* the sum of the increments, processedTables the number of CompletedTable
\* calls, the error count the number of AddError calls, whatever GetMetrics
\* was doing meanwhile.
C33_NoLostUpdate ==
    WritersAtRest =>
        /\ ptCounters.processedRows = ptCalls.processedRows
        /\ ptCounters.processedTables = ptCalls.processedTables
        /\ ptCounters.errors = ptCalls.errors

\* Two writers have each called CompletedTable, and a GetMetrics in between
\* saw one of the two
C33_Witness ==
    /\ WritersAtRest
    /\ ptCalls.made = MaxOps
    /\ ptCalls.processedTables >= 2
    /\ ptCounters.processedTables = ptCalls.processedTables
    /\ ptMetrics.ProcessedTables = 1
    /\ ptTask[0] = PTAtRest

\* ------------------------------------------------- logger and monitor task

\* C35: in any sequence of ExecuteMigration calls on one engine, no log
\* entry is sent to the logger after the logger was closed.
C35_NoSendAfterClose == ~lgPanic

C36_NoEmptyImport ==
    \A i \in DOMAIN importLog : importLog[i].data # <<>>

\* ------------------------------------------- invalid pre-phase results

\* C38: PostMigationValidation reports no table valid whose pre-phase
\* result was invalid, whatever the target holds.
C38_InvalidPreStaysInvalid ==
    \A i \in DOMAIN valPost :
        \A j \in DOMAIN valPre :
            /\ valPre[j].TableName = valPost[i].TableName
            /\ ~valPre[j].IsValid
            => ~valPost[i].IsValid

\* ------------------------------------------------- the tracker's counters

\* The source rows that some successful ImportData call was handed
RowsImported ==
    UNION {Range(ImportedOf(importLog, t)) : t \in TableIds}

\* C39: processedRows never exceeds the number of source rows for which
\* ImportData returned success, and after a successful run it equals
\* result.TotalRowsMigrated.
C39_ProcessedRowsAreImported ==
    /\ tracker.processedRows <= Cardinality(RowsImported)
    /\ Returned /\ retErr = "nil"
            => tracker.processedRows = result.TotalRowsMigrated

\* C40: on return result.TotalTablesProcessed is the number of tables whose
\* import completed, which the tracker counts in processedTables, whether
\* the run succeeded or failed after some tables.
C40_TablesProcessedReported ==
    Returned => result.TotalTablesProcessed = tracker.processedTables

====
